---- MODULE Spec2Model ----
(***************************************************************************)
(* napalm-jtcom: the configuration convergence engine.                     *)
(*   build_device_plan   src/src/napalm_jtcom/utils/device_diff.py         *)
(*   apply_device_config src/src/napalm_jtcom/driver.py                    *)
(*   write operations    src/src/napalm_jtcom/client/{vlan,port}_ops.py    *)
(*                                                                         *)
(* Optional values (Python's `x | None`) are sequences of length 0 or 1:   *)
(* None is <<>> and a value v is <<v>>.  A dict is a record of its keys in *)
(* insertion order and its mapping.                                        *)
(***************************************************************************)
EXTENDS Integers, Sequences, FiniteSets, TLC

VARIABLES
    mode,                 \* which entry point this behaviour exercises
    run,                  \* 1 for the first call of apply_device_config, 2 for a repeat
    pc,                   \* position in the running call
    current,              \* build_device_plan argument `current` (current_n in the driver)
    desired,              \* `desired` (plan argument / apply_device_config argument)
    allow_vlan_delete,    \* build_device_plan keyword flags
    allow_vlan_membership,
    allow_vlan_rename,
    safety_port_id,       \* Optional[int]
    plan,                 \* the DevicePlan returned
    dev_vlans,            \* the switch: static VLAN table, VLAN ID -> name
    dev_pvlan,            \* the switch: per-port VLAN settings, by 0-based port index
    dev_ports,            \* the switch: port settings, by 1-based port ID
    check_mode,           \* apply_device_config arguments
    do_backup,
    current_ports,        \* list[PortSettings] of the first read
    idx,                  \* index of the change being applied
    sub,                  \* index of the next write of that change
    applied,              \* keys of the changes applied so far
    requests,             \* every request sent to the switch, in order
    ignored,              \* a write was acknowledged by the firmware without being executed
    backup_file,          \* "" or the path of the saved backup
    outcome,              \* "running", "returned" or the exception raised
    ret,                  \* the dict returned, or what the exception carries
    logged_in,            \* JTComSession._logged_in
    call                  \* the session method running and its arguments

planVars == <<current, desired, allow_vlan_delete, allow_vlan_membership,
              allow_vlan_rename, safety_port_id, plan>>

devVars == <<dev_vlans, dev_pvlan, dev_ports>>

applyVars == <<check_mode, do_backup, current_ports, idx, sub, applied, requests,
               ignored, backup_file, outcome, ret>>

sessVars == <<logged_in, call>>

vars == <<mode, run, pc, planVars, devVars, applyVars, sessVars>>

-----------------------------------------------------------------------------
(* Bounds                                                                  *)

MaxVid == 3

MaxPort == 2

VlanIds == 1..MaxVid

PortIds == 1..MaxPort

-----------------------------------------------------------------------------
(* Python helpers                                                          *)

None == <<>>

Some(x) == <<x>>

Get(o) == o[1]

Range(s) == {s[i] : i \in 1..Len(s)}

Reverse(s) == [i \in 1..Len(s) |-> s[Len(s) + 1 - i]]

Map(s, F(_)) == [i \in 1..Len(s) |-> F(s[i])]

RemoveAt(s, i) == [j \in 1..(Len(s) - 1) |-> IF j < i THEN s[j] ELSE s[j + 1]]

RECURSIVE sorted(_)
sorted(s) ==
    IF s = <<>> THEN <<>>
    ELSE LET m == CHOOSE x \in Range(s) : \A y \in Range(s) : x <= y
             i == CHOOSE k \in 1..Len(s) : s[k] = m
         IN  <<m>> \o sorted(RemoveAt(s, i))

sorted_reverse(s) == Reverse(sorted(s))

\* sorted(set(...)): the elements of S, ascending
RECURSIVE Ascending(_)
Ascending(S) ==
    IF S = {} THEN <<>>
    ELSE LET m == CHOOSE x \in S : \A y \in S : x <= y
         IN  <<m>> \o Ascending(S \ {m})

\* an empty dict
EmptyDict == [keys |-> <<>>, val |-> <<>>]

\* `k in d`
In(k, d) == k \in DOMAIN d.val

-----------------------------------------------------------------------------
(* model/vlan.py, model/port.py, model/config.py                           *)

\* VlanConfig.  The dataclass in model/vlan.py has no `state` field; the
\* callers (ansible/action_plugins/jtcom_config.py:50, the unit tests) pass
\* one, so a desired entry carries the tag.  Nothing in the plan engine
\* reads it.
VlanConfig(vid, name, tagged, untagged, state) ==
    [vlan_id |-> vid, name |-> name, tagged_ports |-> tagged,
     untagged_ports |-> untagged, state |-> state]

PortConfig(pid, admin_up, speed_duplex, flow_control, state) ==
    [port_id |-> pid, admin_up |-> admin_up, speed_duplex |-> speed_duplex,
     flow_control |-> flow_control, state |-> state]

DeviceConfig(vlans, ports) == [vlans |-> vlans, ports |-> ports]

-----------------------------------------------------------------------------
(* utils/device_diff.py                                                    *)

Change(kind, key, details) == [kind |-> kind, key |-> key, details |-> details]

\* f"vlan:{vid}" / f"port:{pid}"
VlanKey(vid) == <<"vlan", vid>>

PortKey(pid) == <<"port", pid>>

\* variant: a desired name of None is compared like any other name
VlanDiffsNoneName(cfg, entry, allow_membership, allow_rename) ==
    LET fields == {f \in {"name", "tagged_ports", "untagged_ports"} :
            \/ /\ f = "name"
               /\ allow_rename /\ cfg.name # entry.name
            \/ /\ f = "tagged_ports"
               /\ allow_membership
               /\ sorted(cfg.tagged_ports) # sorted(entry.tagged_ports)
            \/ /\ f = "untagged_ports"
               /\ allow_membership
               /\ sorted(cfg.untagged_ports) # sorted(entry.untagged_ports)}
    IN [f \in fields |->
          CASE f = "name" -> [from |-> entry.name, to |-> cfg.name]
            [] f = "tagged_ports" ->
                 [from |-> sorted(entry.tagged_ports), to |-> sorted(cfg.tagged_ports)]
            [] f = "untagged_ports" ->
                 [from |-> sorted(entry.untagged_ports), to |-> sorted(cfg.untagged_ports)]]

\* device_diff.py:103-118: the `diffs` dict of one VLAN present on both sides
VlanDiffs(cfg, entry, allow_membership, allow_rename) ==
    LET fields == {f \in {"name", "tagged_ports", "untagged_ports"} :
            \/ /\ f = "name"
               /\ allow_rename /\ cfg.name # None /\ cfg.name # entry.name
            \/ /\ f = "tagged_ports"
               /\ allow_membership
               /\ sorted(cfg.tagged_ports) # sorted(entry.tagged_ports)
            \/ /\ f = "untagged_ports"
               /\ allow_membership
               /\ sorted(cfg.untagged_ports) # sorted(entry.untagged_ports)}
    IN [f \in fields |->
          CASE f = "name" -> [from |-> entry.name, to |-> cfg.name]
            [] f = "tagged_ports" ->
                 [from |-> sorted(entry.tagged_ports), to |-> sorted(cfg.tagged_ports)]
            [] f = "untagged_ports" ->
                 [from |-> sorted(entry.untagged_ports), to |-> sorted(cfg.untagged_ports)]]

\* variant: no safety port guard
SafetyBlocksNever(cfg_p, pid, safety) == FALSE

\* device_diff.py:138-145: is the admin_up diff dropped for the safety port
SafetyBlocks(cfg_p, pid, safety) ==
    Get(cfg_p.admin_up) = FALSE /\ safety # None /\ pid = Get(safety)

\* variant: a field left None in desired is diffed like any other value
PortDiffsNoneDiffed(cfg_p, cur_p, pid, safety) ==
    LET fields == {f \in {"admin_up", "speed_duplex", "flow_control"} :
            \/ /\ f = "admin_up"
               /\ cfg_p.admin_up # None /\ cfg_p.admin_up # cur_p.admin_up
               /\ ~SafetyBlocks(cfg_p, pid, safety)
            \/ /\ f = "speed_duplex"
               /\ cfg_p.speed_duplex # cur_p.speed_duplex
            \/ /\ f = "flow_control"
               /\ cfg_p.flow_control # cur_p.flow_control}
    IN [f \in fields |-> [from |-> cur_p[f], to |-> cfg_p[f]]]

\* device_diff.py:136-157: the `field_diffs` dict of one port known to current
PortDiffs(cfg_p, cur_p, pid, safety) ==
    LET fields == {f \in {"admin_up", "speed_duplex", "flow_control"} :
            \/ /\ f = "admin_up"
               /\ cfg_p.admin_up # None /\ cfg_p.admin_up # cur_p.admin_up
               /\ ~SafetyBlocks(cfg_p, pid, safety)
            \/ /\ f = "speed_duplex"
               /\ cfg_p.speed_duplex # None /\ cfg_p.speed_duplex # cur_p.speed_duplex
            \/ /\ f = "flow_control"
               /\ cfg_p.flow_control # None /\ cfg_p.flow_control # cur_p.flow_control}
    IN [f \in fields |-> [from |-> cur_p[f], to |-> cfg_p[f]]]

\* variant: creates in the insertion order of desired.vlans
VlanCreatesUnsorted(cur, des) ==
    Map(SelectSeq(des.vlans.keys, LAMBDA vid : ~In(vid, cur.vlans)),
        LAMBDA vid :
            LET cfg == des.vlans.val[vid]
            IN Change("vlan_create", VlanKey(vid),
                      [vlan_id |-> vid, name |-> cfg.name,
                       tagged_ports |-> cfg.tagged_ports,
                       untagged_ports |-> cfg.untagged_ports]))

\* device_diff.py:85-100
VlanCreates(cur, des) ==
    Map(SelectSeq(sorted(des.vlans.keys), LAMBDA vid : ~In(vid, cur.vlans)),
        LAMBDA vid :
            LET cfg == des.vlans.val[vid]
            IN Change("vlan_create", VlanKey(vid),
                      [vlan_id |-> vid, name |-> cfg.name,
                       tagged_ports |-> cfg.tagged_ports,
                       untagged_ports |-> cfg.untagged_ports]))

\* device_diff.py:102-127
VlanUpdates(cur, des, allow_membership, allow_rename) ==
    LET D(vid) == VlanDiffs(des.vlans.val[vid], cur.vlans.val[vid],
                            allow_membership, allow_rename)
    IN Map(SelectSeq(sorted(des.vlans.keys),
                     LAMBDA vid : In(vid, cur.vlans) /\ DOMAIN D(vid) # {}),
           LAMBDA vid : Change("vlan_update", VlanKey(vid),
                               [vlan_id |-> vid, diffs |-> D(vid)]))

\* variant: a desired port unknown to current is diffed against a port with
\* no settings
PortUpdatesUnknownToo(cur, des, safety) ==
    LET Cur(pid) == IF In(pid, cur.ports) THEN cur.ports.val[pid]
                    ELSE PortConfig(pid, None, None, None, "present")
        D(pid) == PortDiffs(des.ports.val[pid], Cur(pid), pid, safety)
    IN Map(SelectSeq(sorted(des.ports.keys), LAMBDA pid : DOMAIN D(pid) # {}),
           LAMBDA pid : Change("port_update", PortKey(pid),
                               [port_id |-> pid, diffs |-> D(pid)]))

\* device_diff.py:130-166
PortUpdates(cur, des, safety) ==
    LET D(pid) == PortDiffs(des.ports.val[pid], cur.ports.val[pid], pid, safety)
    IN Map(SelectSeq(sorted(des.ports.keys),
                     LAMBDA pid : In(pid, cur.ports) /\ DOMAIN D(pid) # {}),
           LAMBDA pid : Change("port_update", PortKey(pid),
                               [port_id |-> pid, diffs |-> D(pid)]))

\* variant: the delete loop without its `vid == 1` guard
VlanDeletesWithVlan1(cur, des, allow_delete) ==
    IF allow_delete
    THEN Map(SelectSeq(sorted_reverse(cur.vlans.keys), LAMBDA vid : ~In(vid, des.vlans)),
             LAMBDA vid : Change("vlan_delete", VlanKey(vid), [vlan_id |-> vid]))
    ELSE <<>>

\* variant: the delete loop run whatever allow_vlan_delete says
VlanDeletesAlways(cur, des, allow_delete) ==
    Map(SelectSeq(sorted_reverse(cur.vlans.keys),
                  LAMBDA vid : vid # 1 /\ ~In(vid, des.vlans)),
        LAMBDA vid : Change("vlan_delete", VlanKey(vid), [vlan_id |-> vid]))

\* variant: the delete loop without its `vid not in desired.vlans` test
VlanDeletesListedToo(cur, des, allow_delete) ==
    IF allow_delete
    THEN Map(SelectSeq(sorted_reverse(cur.vlans.keys), LAMBDA vid : vid # 1),
             LAMBDA vid : Change("vlan_delete", VlanKey(vid), [vlan_id |-> vid]))
    ELSE <<>>

\* device_diff.py:168-188
VlanDeletes(cur, des, allow_delete) ==
    IF allow_delete
    THEN Map(SelectSeq(sorted_reverse(cur.vlans.keys),
                       LAMBDA vid : vid # 1 /\ ~In(vid, des.vlans)),
             LAMBDA vid : Change("vlan_delete", VlanKey(vid), [vlan_id |-> vid]))
    ELSE <<>>

\* variant: the deletes put first in the plan
deletes_first_plan(cur, des, allow_delete, allow_membership, allow_rename, safety) ==
    LET creates      == VlanCreates(cur, des)
        updates      == VlanUpdates(cur, des, allow_membership, allow_rename)
        port_changes == PortUpdates(cur, des, safety)
        deletes      == VlanDeletes(cur, des, allow_delete)
    IN [changes |-> deletes \o creates \o updates \o port_changes,
        summary |-> [vlan_create |-> Len(creates), vlan_update |-> Len(updates),
                     port_update |-> Len(port_changes), vlan_delete |-> Len(deletes)]]

\* variant: the summary is taken before the deletes are collected
early_summary_plan(cur, des, allow_delete, allow_membership, allow_rename, safety) ==
    LET creates      == VlanCreates(cur, des)
        updates      == VlanUpdates(cur, des, allow_membership, allow_rename)
        port_changes == PortUpdates(cur, des, safety)
        deletes      == VlanDeletes(cur, des, allow_delete)
    IN [changes |-> creates \o updates \o port_changes \o deletes,
        summary |-> [vlan_create |-> Len(creates), vlan_update |-> Len(updates),
                     port_update |-> Len(port_changes), vlan_delete |-> 0]]

\* device_diff.py:54-197
build_device_plan(cur, des, allow_delete, allow_membership, allow_rename, safety) ==
    LET creates      == VlanCreates(cur, des)
        updates      == VlanUpdates(cur, des, allow_membership, allow_rename)
        port_changes == PortUpdates(cur, des, safety)
        deletes      == VlanDeletes(cur, des, allow_delete)
    IN [changes |-> creates \o updates \o port_changes \o deletes,
        summary |-> [vlan_create |-> Len(creates), vlan_update |-> Len(updates),
                     port_update |-> Len(port_changes), vlan_delete |-> Len(deletes)]]

EmptyPlan == [changes |-> <<>>,
              summary |-> [vlan_create |-> 0, vlan_update |-> 0,
                           port_update |-> 0, vlan_delete |-> 0]]

-----------------------------------------------------------------------------
(* utils/render.py                                                         *)

render_diff(p) ==
    [summary |-> p.summary, total_changes |-> Len(p.changes), changes |-> p.changes]

-----------------------------------------------------------------------------
(* vendor/jtcom/mappings.py, utils/normalize.py                            *)

SPEED_DUPLEX_CANONICAL ==
    {"Auto", "10M/Half", "10M/Full", "100M/Half", "100M/Full", "1000M/Full",
     "2500M/Full", "10G/Full"}

\* variant: one alias is mapped to a token that is an alias itself
SPEED_DUPLEX_ALIASES_CHAINED ==
    [a \in {"auto", "1000m/full", "1g/full", "100mhalf", "1gfull"} |->
        CASE a = "auto" -> "Auto"
          [] a \in {"1000m/full", "1g/full"} -> "1000M/Full"
          [] a = "100mhalf" -> "100M/Half"
          [] a = "1gfull" -> "1G/Full"]

SPEED_DUPLEX_ALIASES ==
    [a \in {"auto", "10m/half", "10m/full", "100m/half", "100m/full", "1000m/full",
            "1g/full", "2500m/full", "10g/full", "10mhalf", "10mfull", "100mhalf",
            "100mfull", "1000mfull", "1gfull"} |->
        CASE a = "auto" -> "Auto"
          [] a \in {"10m/half", "10mhalf"} -> "10M/Half"
          [] a \in {"10m/full", "10mfull"} -> "10M/Full"
          [] a \in {"100m/half", "100mhalf"} -> "100M/Half"
          [] a \in {"100m/full", "100mfull"} -> "100M/Full"
          [] a \in {"1000m/full", "1g/full", "1000mfull", "1gfull"} -> "1000M/Full"
          [] a = "2500m/full" -> "2500M/Full"
          [] a = "10g/full" -> "10G/Full"]

\* str.lower() on the tokens the model uses
Lower(t) ==
    CASE t = "Auto" -> "auto"
      [] t = "AUTO" -> "auto"
      [] t = "1000M/Full" -> "1000m/full"
      [] t = "1G/Full" -> "1g/full"
      [] t = "100MHalf" -> "100mhalf"
      [] OTHER -> t

\* variant: a port in both lists stays in both
normalize_vlan_config_keep_overlap(cfg) ==
    [cfg EXCEPT !.tagged_ports = Ascending(Range(cfg.tagged_ports)),
                !.untagged_ports = Ascending(Range(cfg.untagged_ports))]

normalize_vlan_config(cfg) ==
    LET untagged == Ascending(Range(cfg.untagged_ports))
        tagged   == SelectSeq(Ascending(Range(cfg.tagged_ports)),
                              LAMBDA q : q \notin Range(untagged))
    IN [cfg EXCEPT !.tagged_ports = tagged, !.untagged_ports = untagged]

\* variant: the alias table is looked up without lower-casing the token
normalize_port_config_case_sensitive(cfg) ==
    IF cfg.speed_duplex = None THEN cfg
    ELSE IF Get(cfg.speed_duplex) \in SPEED_DUPLEX_CANONICAL THEN cfg
    ELSE IF Get(cfg.speed_duplex) \in DOMAIN SPEED_DUPLEX_ALIASES
         THEN [cfg EXCEPT !.speed_duplex = Some(SPEED_DUPLEX_ALIASES[Get(cfg.speed_duplex)])]
         ELSE cfg

normalize_port_config(cfg) ==
    IF cfg.speed_duplex = None THEN cfg
    ELSE IF Get(cfg.speed_duplex) \in SPEED_DUPLEX_CANONICAL THEN cfg
    ELSE IF Lower(Get(cfg.speed_duplex)) \in DOMAIN SPEED_DUPLEX_ALIASES
         THEN [cfg EXCEPT !.speed_duplex = Some(SPEED_DUPLEX_ALIASES[Lower(Get(cfg.speed_duplex))])]
         ELSE cfg

normalize_device_config(cfg) ==
    DeviceConfig(
        [keys |-> sorted(cfg.vlans.keys),
         val |-> [v \in DOMAIN cfg.vlans.val |-> normalize_vlan_config(cfg.vlans.val[v])]],
        [keys |-> sorted(cfg.ports.keys),
         val |-> [q \in DOMAIN cfg.ports.val |-> normalize_port_config(cfg.ports.val[q])]])

-----------------------------------------------------------------------------
(* The switch, as the reads see it                                         *)

\* "Port N", the name the VLAN pages give the port with 0-based index i
PortName(i) == <<"Port", i + 1>>

\* model/config.py:84-89
port_name_to_index(name) ==
    IF Len(name) = 2 /\ name[1] = "Port" THEN Some(name[2] - 1) ELSE None

\* driver.py:589-608: static VLANs with the memberships the per-port page
\* implies; a port setting that names a VLAN the table lacks adds nothing
ReadVlans(dv, pv) ==
    LET ports == Ascending(DOMAIN pv)
        Untagged(vid) ==
            SelectSeq(ports, LAMBDA i :
                \/ pv[i].vlan_type = "access" /\ pv[i].access_vlan = vid
                \/ pv[i].vlan_type = "trunk" /\ pv[i].native_vlan = vid)
        Tagged(vid) ==
            SelectSeq(ports, LAMBDA i :
                pv[i].vlan_type = "trunk" /\ vid \in pv[i].permit_vlans)
    IN [vid \in DOMAIN dv |->
           [vlan_id |-> vid, name |-> dv[vid],
            tagged_ports |-> Map(Tagged(vid), PortName),
            untagged_ports |-> Map(Untagged(vid), PortName)]]

\* driver.py:610-612: list[PortSettings], in port order
ReadPorts(dp) == Map(Ascending(DOMAIN dp), LAMBDA q : dp[q])

\* model/config.py:28-81
from_current(current_vlans, ports_list) ==
    LET Indices(names) ==
            Map(SelectSeq(names, LAMBDA n : port_name_to_index(n) # None),
                LAMBDA n : Get(port_name_to_index(n)))
        pids == {ports_list[i].port_id : i \in 1..Len(ports_list)}
        Setting(q) == ports_list[CHOOSE i \in 1..Len(ports_list) :
                                    /\ ports_list[i].port_id = q
                                    /\ \A j \in (i + 1)..Len(ports_list) :
                                          ports_list[j].port_id # q]
    IN DeviceConfig(
        [keys |-> Ascending(DOMAIN current_vlans),
         val |-> [vid \in DOMAIN current_vlans |->
                    VlanConfig(vid, Some(current_vlans[vid].name),
                               sorted(Indices(current_vlans[vid].tagged_ports)),
                               sorted(Indices(current_vlans[vid].untagged_ports)),
                               "present")]],
        [keys |-> Map(ports_list, LAMBDA x : x.port_id),
         val |-> [q \in pids |->
                    PortConfig(q, Some(Setting(q).admin_up), Setting(q).speed_duplex,
                               Setting(q).flow_control, "present")]])

\* driver.py:492-494 / 558-560
ReadCurrentN(dv, pv, dp) ==
    normalize_device_config(from_current(ReadVlans(dv, pv), ReadPorts(dp)))

-----------------------------------------------------------------------------
(* client/vlan_ops.py, client/port_ops.py: the request each write sends     *)

SPEED_TOKEN_TO_CODE ==
    [t \in SPEED_DUPLEX_CANONICAL |->
        CASE t = "Auto" -> "0"
          [] t = "10M/Half" -> "1"
          [] t = "10M/Full" -> "2"
          [] t = "100M/Half" -> "3"
          [] t = "100M/Full" -> "4"
          [] t = "1000M/Full" -> "5"
          [] t = "2500M/Full" -> "6"
          [] t = "10G/Full" -> "7"]

\* vlan_ops.py:43-67: vlanname is `name or ""`
vlan_create(vlan_id, name) ==
    [op |-> "vlan_create", vlanid |-> vlan_id,
     vlanname |-> IF name = None THEN "" ELSE Get(name)]

\* variant: VLAN 1 is not taken out of the list
safe_ids_unfiltered(vlan_ids) == vlan_ids

\* vlan_ops.py:87
safe_ids(vlan_ids) == SelectSeq(vlan_ids, LAMBDA v : v # 1)

\* vlan_ops.py:70-100, for a list that holds a deletable VLAN
vlan_delete(vlan_ids) ==
    [op |-> "vlan_delete",
     del |-> sorted(safe_ids(vlan_ids))]

\* vlan_ops.py:103-160
vlan_set_port(port_ids, vlan_type, access_vlan, native_vlan, permit_vlans) ==
    IF vlan_type = "access"
    THEN [op |-> "vlan_set_port", PortId |-> sorted(port_ids), VlanType |-> "0",
          AccessVlan |-> IF access_vlan # None THEN Get(access_vlan) ELSE 1,
          NativeVlan |-> 1, PermitVlan |-> <<>>]
    ELSE [op |-> "vlan_set_port", PortId |-> sorted(port_ids), VlanType |-> "1",
          AccessVlan |-> 1,
          NativeVlan |-> IF native_vlan # None THEN Get(native_vlan) ELSE 1,
          PermitVlan |-> sorted(permit_vlans)]

\* port_ops.py:119-130: the speed token resolves to a CGI code
PortPayloadValid(des_p, cur_p) ==
    LET speed_token == IF des_p.speed_duplex # None THEN des_p.speed_duplex
                       ELSE cur_p.speed_duplex
    IN speed_token # None /\ Get(speed_token) \in DOMAIN SPEED_TOKEN_TO_CODE

\* port_ops.py:88-147, `current` given
build_port_payload(des_p, cur_p) ==
    LET admin_up == IF des_p.admin_up # None THEN Get(des_p.admin_up) ELSE cur_p.admin_up
        speed_token == IF des_p.speed_duplex # None THEN des_p.speed_duplex
                       ELSE cur_p.speed_duplex
        flow_control == IF des_p.flow_control # None THEN Get(des_p.flow_control)
                        ELSE IF cur_p.flow_control # None THEN Get(cur_p.flow_control)
                        ELSE FALSE
    IN [op |-> "update_port", portid |-> des_p.port_id - 1,
        state |-> IF admin_up THEN "1" ELSE "0",
        speed_duplex |-> SPEED_TOKEN_TO_CODE[Get(speed_token)],
        flow |-> IF flow_control THEN "1" ELSE "0"]

-----------------------------------------------------------------------------
(* The switch, executing a write                                           *)

CodeToSpeed(code) == CHOOSE t \in DOMAIN SPEED_TOKEN_TO_CODE : SPEED_TOKEN_TO_CODE[t] = code

\* staticvlan.cgi cmd=add creates the VLAN or renames it; cmd=del removes
ExecVlans(dv, w) ==
    CASE w.op = "vlan_create" ->
            [v \in DOMAIN dv \cup {w.vlanid} |-> IF v = w.vlanid THEN w.vlanname ELSE dv[v]]
      [] w.op = "vlan_delete" -> [v \in DOMAIN dv \ Range(w.del) |-> dv[v]]
      [] OTHER -> dv

\* vlanport.cgi replaces the VLAN settings of every port it names
ExecPvlan(pv, w) ==
    IF w.op = "vlan_set_port"
    THEN [i \in DOMAIN pv |->
            IF i \in Range(w.PortId)
            THEN [vlan_type |-> IF w.VlanType = "0" THEN "access" ELSE "trunk",
                  access_vlan |-> w.AccessVlan, native_vlan |-> w.NativeVlan,
                  permit_vlans |-> Range(w.PermitVlan)]
            ELSE pv[i]]
    ELSE pv

\* port.cgi sets the three fields of the port it names
ExecPorts(dp, w) ==
    IF w.op = "update_port" /\ (w.portid + 1) \in DOMAIN dp
    THEN [dp EXCEPT ![w.portid + 1] =
            [port_id |-> w.portid + 1, admin_up |-> (w.state = "1"),
             speed_duplex |-> Some(CodeToSpeed(w.speed_duplex)),
             flow_control |-> Some(w.flow = "1")]]
    ELSE dp

-----------------------------------------------------------------------------
(* Inputs of the plan engine                                               *)

Names == {"a", "b"}

\* insertion orders of a dict with key set S: every permutation, the two
\* monotone ones, or the ascending one
AnyOrder(S) == {s \in [1..Cardinality(S) -> S] : Range(s) = S}

Monotone(S) == {Ascending(S), Reverse(Ascending(S))}

InOrder(S) == {Ascending(S)}

\* every dict whose keys are a subset of K inserted in an order of Orders,
\* each key k mapped to Mk(k, b) for some body b of Bodies
Dicts(K, Bodies, Mk(_, _), Orders(_)) ==
    UNION {{[keys |-> o, val |-> [k \in S |-> Mk(k, f[k])]] :
                o \in Orders(S), f \in [S -> Bodies]} : S \in SUBSET K}

MkVlan(vid, b) == VlanConfig(vid, b.name, b.tagged_ports, b.untagged_ports, b.state)

MkPort(pid, b) == PortConfig(pid, b.admin_up, b.speed_duplex, b.flow_control, b.state)

AllPortsUp ==
    [keys |-> Ascending(PortIds),
     val |-> [p \in PortIds |-> PortConfig(p, Some(TRUE), Some("Auto"), Some(TRUE), "present")]]

\* normalized membership of one VLAN over the port indices 0..MaxPort-1:
\* each list strictly ascending, the two disjoint
Memberships ==
    {[tagged_ports |-> Ascending(tu[1]), untagged_ports |-> Ascending(tu[2])] :
        tu \in {x \in (SUBSET (0..(MaxPort - 1))) \X (SUBSET (0..(MaxPort - 1))) :
                        x[1] \cap x[2] = {}}}

OptBool == {None, Some(TRUE), Some(FALSE)}

Speeds == {"Auto", "1000M/Full"}

OptSafety == {None} \cup {Some(p) : p \in PortIds}

\* Many VLANs and ports, few field values: which changes appear and in what
\* order, for every insertion order.
StructureCalls ==
    /\ \E cv \in Dicts(VlanIds,
                     [name : {Some("a")}, tagged_ports : {<<>>}, untagged_ports : {<<>>},
                      state : {"present"}], MkVlan, Monotone),
          dv \in Dicts(VlanIds,
                     {[name |-> Some("b"), tagged_ports |-> <<>>, untagged_ports |-> <<>>,
                       state |-> "present"],
                      [name |-> None, tagged_ports |-> <<>>, untagged_ports |-> <<>>,
                       state |-> "absent"]}, MkVlan, AnyOrder),
          dp \in Dicts(PortIds,
                     [admin_up : {Some(FALSE)}, speed_duplex : {None}, flow_control : {None},
                      state : {"present"}], MkPort, Monotone) :
          /\ current = DeviceConfig(cv, AllPortsUp)
          /\ desired = DeviceConfig(dv, dp)
    /\ allow_vlan_delete \in BOOLEAN
    /\ allow_vlan_membership = TRUE
    /\ allow_vlan_rename = TRUE
    /\ safety_port_id = None

\* One VLAN (VLAN 1 or the highest ID), every field value and flag.
VlanFieldCalls ==
    /\ \E cv \in UNION {Dicts({v},
                     {[name |-> Some("a"), tagged_ports |-> m.tagged_ports,
                       untagged_ports |-> m.untagged_ports, state |-> "present"] :
                          m \in Memberships}, MkVlan, Monotone) : v \in {1, MaxVid}},
          dv \in UNION {Dicts({v},
                     {[name |-> n, tagged_ports |-> m.tagged_ports,
                       untagged_ports |-> m.untagged_ports, state |-> st] :
                          n \in {None} \cup {Some(x) : x \in Names}, m \in Memberships,
                          st \in {"present", "absent"}}, MkVlan, Monotone) : v \in {1, MaxVid}} :
          /\ current = DeviceConfig(cv, EmptyDict)
          /\ desired = DeviceConfig(dv, EmptyDict)
    /\ allow_vlan_delete \in BOOLEAN
    /\ allow_vlan_membership \in BOOLEAN
    /\ allow_vlan_rename \in BOOLEAN
    /\ safety_port_id = None

\* One port, every field value, every safety port.
PortFieldCalls ==
    /\ \E cp \in UNION {Dicts({p},
                     [admin_up : {Some(TRUE), Some(FALSE)},
                      speed_duplex : {Some(x) : x \in Speeds},
                      flow_control : OptBool, state : {"present"}], MkPort, Monotone) : p \in PortIds},
          dp \in UNION {Dicts({p},
                     [admin_up : OptBool,
                      speed_duplex : {None} \cup {Some(x) : x \in Speeds},
                      flow_control : OptBool, state : {"present", "absent"}], MkPort, Monotone) :
                          p \in PortIds} :
          /\ current = DeviceConfig(EmptyDict, cp)
          /\ desired = DeviceConfig(EmptyDict, dp)
    /\ allow_vlan_delete = FALSE
    /\ allow_vlan_membership = TRUE
    /\ allow_vlan_rename = TRUE
    /\ safety_port_id \in OptSafety

\* the variables of the orchestrator, unused by a bare plan call
ApplyIdle ==
    /\ dev_vlans = <<>> /\ dev_pvlan = <<>> /\ dev_ports = <<>>
    /\ check_mode = FALSE /\ do_backup = FALSE
    /\ current_ports = <<>>
    /\ idx = 0 /\ sub = 0
    /\ applied = <<>> /\ requests = <<>> /\ ignored = FALSE
    /\ backup_file = ""
    /\ outcome = "running"
    /\ ret = <<>>

\* no session call is modelled
SessionIdle == logged_in = TRUE /\ call = <<>>

InitPlan ==
    /\ mode = "plan"
    /\ run = 1
    /\ SessionIdle
    /\ pc = "start"
    /\ plan = EmptyPlan
    /\ ApplyIdle
    /\ \/ StructureCalls
       \/ VlanFieldCalls
       \/ PortFieldCalls

BuildPlan ==
    /\ mode = "plan"
    /\ pc = "start"
    /\ plan' = build_device_plan(current, desired, allow_vlan_delete,
                                 allow_vlan_membership, allow_vlan_rename,
                                 safety_port_id)
    /\ pc' = "planned"
    /\ UNCHANGED <<mode, run, sessVars, current, desired, allow_vlan_delete, allow_vlan_membership,
                   allow_vlan_rename, safety_port_id, devVars, applyVars>>

NextPlan == BuildPlan

SpecPlan == InitPlan /\ [][NextPlan]_vars

-----------------------------------------------------------------------------
(* driver.py: apply_device_config                                          *)

\* driver.py:495
DesiredN == normalize_device_config(desired)

ReadRequest == [op |-> "read"]

BackupRequest == [op |-> "backup"]

IsWrite(e) == e.op \notin {"read", "backup"}

\* the write requests sent so far
Writes == SelectSeq(requests, IsWrite)

\* variant: the memberships are set before the VLAN is created
VlanChangeWritesPortsFirst(vc) ==
    (IF vc.untagged_ports # <<>>
     THEN <<vlan_set_port(vc.untagged_ports, "access", Some(vc.vlan_id), None, <<>>)>>
     ELSE <<>>)
    \o (IF vc.tagged_ports # <<>>
        THEN <<vlan_set_port(vc.tagged_ports, "trunk", None, Some(1), <<vc.vlan_id>>)>>
        ELSE <<>>)
    \o <<vlan_create(vc.vlan_id, vc.name)>>

\* driver.py:522-544: the writes of a vlan_create / vlan_update change
VlanChangeWrites(vc) ==
    <<vlan_create(vc.vlan_id, vc.name)>>
    \o (IF vc.untagged_ports # <<>>
        THEN <<vlan_set_port(vc.untagged_ports, "access", Some(vc.vlan_id), None, <<>>)>>
        ELSE <<>>)
    \o (IF vc.tagged_ports # <<>>
        THEN <<vlan_set_port(vc.tagged_ports, "trunk", None, Some(1), <<vc.vlan_id>>)>>
        ELSE <<>>)

\* port_ops.py:78-81: settings_by_id.get(port_id) over the first read
CurrentSetting(pid) ==
    current_ports[CHOOSE i \in 1..Len(current_ports) : current_ports[i].port_id = pid]

\* driver.py:521-554: the writes one change of the plan stands for
ChangeWrites(change) ==
    CASE change.kind \in {"vlan_create", "vlan_update"} ->
            VlanChangeWrites(DesiredN.vlans.val[change.details.vlan_id])
      [] change.kind = "vlan_delete" -> <<vlan_delete(<<change.details.vlan_id>>)>>
      [] change.kind = "port_update" ->
            <<build_port_payload(DesiredN.ports.val[change.details.port_id],
                                 CurrentSetting(change.details.port_id))>>

\* variant: check mode tested before the empty plan
EarlyReturnCheckFirst(p, check) ==
    IF check THEN "check" ELSE IF p.changes = <<>> THEN "unchanged" ELSE "none"

\* variant: check mode not tested
EarlyReturnNoCheck(p, check) == IF p.changes = <<>> THEN "unchanged" ELSE "none"

\* driver.py:505-509: which early return the plan and check_mode select
EarlyReturn(p, check) ==
    IF p.changes = <<>> THEN "unchanged" ELSE IF check THEN "check" ELSE "none"

Returned(changed, backup, keys) ==
    [changed |-> changed, diff |-> render_diff(plan'), backup_file |-> backup,
     applied |-> keys]

\* driver.py:488-509: first read, normalize, plan, and the two early returns
ReadAndPlan ==
    /\ mode = "apply" /\ pc = "start"
    /\ requests' = Append(requests, ReadRequest)
    /\ current' = ReadCurrentN(dev_vlans, dev_pvlan, dev_ports)
    /\ current_ports' = ReadPorts(dev_ports)
    /\ plan' = build_device_plan(current', DesiredN, FALSE, TRUE, TRUE, safety_port_id)
    /\ CASE EarlyReturn(plan', check_mode) = "unchanged" ->
               /\ outcome' = "returned"
               /\ ret' = Returned(FALSE, "", <<>>)
               /\ pc' = "done"
         [] EarlyReturn(plan', check_mode) = "check" ->
               /\ outcome' = "returned"
               /\ ret' = Returned(TRUE, "", <<>>)
               /\ pc' = "done"
         [] OTHER ->
               /\ pc' = "backup"
               /\ UNCHANGED <<outcome, ret>>
    /\ UNCHANGED <<mode, run, sessVars, desired, allow_vlan_delete, allow_vlan_membership,
                   allow_vlan_rename, safety_port_id, devVars, check_mode, do_backup,
                   idx, sub, applied, ignored, backup_file>>

\* a read step raises (transport, HTTP status or parse error)
ReadFails ==
    /\ mode = "apply" /\ pc \in {"start", "verify"}
    /\ requests' = Append(requests, ReadRequest)
    /\ outcome' = "ReadError"
    /\ pc' = "done"
    /\ UNCHANGED <<mode, run, sessVars, planVars, devVars, check_mode, do_backup, current_ports,
                   idx, sub, applied, ignored, backup_file, ret>>

\* driver.py:511-517, 614-632
Backup ==
    /\ mode = "apply" /\ pc = "backup"
    /\ IF do_backup
       THEN /\ requests' = Append(requests, BackupRequest)
            /\ backup_file' = "backups/switch_cfg.bin"
       ELSE UNCHANGED <<requests, backup_file>>
    /\ idx' = 1 /\ sub' = 1
    /\ pc' = "apply"
    /\ UNCHANGED <<mode, run, sessVars, planVars, devVars, check_mode, do_backup, current_ports,
                   applied, ignored, outcome, ret>>

\* variant: the failure of the backup is swallowed and the run goes on
BackupFailsSwallowed ==
    /\ mode = "apply" /\ pc = "backup" /\ do_backup
    /\ requests' = Append(requests, BackupRequest)
    /\ idx' = 1 /\ sub' = 1
    /\ pc' = "apply"
    /\ UNCHANGED <<mode, run, sessVars, planVars, devVars, check_mode, do_backup, current_ports,
                   applied, ignored, backup_file, outcome, ret>>

\* the backup download or the write of the file raises
BackupFails ==
    /\ mode = "apply" /\ pc = "backup" /\ do_backup
    /\ requests' = Append(requests, BackupRequest)
    /\ outcome' = "BackupError"
    /\ pc' = "done"
    /\ UNCHANGED <<mode, run, sessVars, planVars, devVars, check_mode, do_backup, current_ports,
                   idx, sub, applied, ignored, backup_file, ret>>

\* port_ops.py:119-130: no CGI code for the speed token, nothing is sent
PortPayloadFails ==
    /\ mode = "apply" /\ pc = "apply"
    /\ plan.changes[idx].kind = "port_update"
    /\ ~PortPayloadValid(DesiredN.ports.val[plan.changes[idx].details.port_id],
                         CurrentSetting(plan.changes[idx].details.port_id))
    /\ outcome' = "ValueError"
    /\ pc' = "done"
    /\ UNCHANGED <<mode, run, sessVars, planVars, devVars, check_mode, do_backup, current_ports,
                   idx, sub, applied, requests, ignored, backup_file, ret>>

PayloadReady ==
    plan.changes[idx].kind = "port_update" =>
        PortPayloadValid(DesiredN.ports.val[plan.changes[idx].details.port_id],
                         CurrentSetting(plan.changes[idx].details.port_id))

\* variant: the key of the change goes to the front of `applied`
AdvancePrepend ==
    IF sub < Len(ChangeWrites(plan.changes[idx]))
    THEN /\ sub' = sub + 1
         /\ UNCHANGED <<idx, applied, pc>>
    ELSE /\ sub' = 1
         /\ idx' = idx + 1
         /\ applied' = <<plan.changes[idx].key>> \o applied
         /\ pc' = IF idx = Len(plan.changes) THEN "verify" ELSE "apply"

\* after the write `sub` of change `idx` is acknowledged
Advance ==
    IF sub < Len(ChangeWrites(plan.changes[idx]))
    THEN /\ sub' = sub + 1
         /\ UNCHANGED <<idx, applied, pc>>
    ELSE /\ sub' = 1
         /\ idx' = idx + 1
         /\ applied' = Append(applied, plan.changes[idx].key)
         /\ pc' = IF idx = Len(plan.changes) THEN "verify" ELSE "apply"

\* driver.py:521-555: the next write is sent, the switch executes it and
\* answers code 0
WriteOk ==
    /\ mode = "apply" /\ pc = "apply" /\ PayloadReady
    /\ LET w == ChangeWrites(plan.changes[idx])[sub]
       IN /\ requests' = Append(requests, w)
          /\ dev_vlans' = ExecVlans(dev_vlans, w)
          /\ dev_pvlan' = ExecPvlan(dev_pvlan, w)
          /\ dev_ports' = ExecPorts(dev_ports, w)
    /\ Advance
    /\ UNCHANGED <<mode, run, sessVars, planVars, check_mode, do_backup, current_ports, ignored,
                   backup_file, outcome, ret>>

\* the switch answers code 0 and leaves its state as it was; at most one
\* write of a run is lost this way
WriteIgnored ==
    /\ mode = "apply" /\ pc = "apply" /\ PayloadReady
    /\ ~ignored
    /\ ignored' = TRUE
    /\ requests' = Append(requests, ChangeWrites(plan.changes[idx])[sub])
    /\ Advance
    /\ UNCHANGED <<mode, run, sessVars, planVars, devVars, check_mode, do_backup, current_ports,
                   backup_file, outcome, ret>>

\* variant: the error of a write is noted and the loop goes on
WriteFailsContinue ==
    /\ mode = "apply" /\ pc = "apply" /\ PayloadReady
    /\ requests' = Append(requests, ChangeWrites(plan.changes[idx])[sub])
    /\ outcome' = "SwitchError"
    /\ Advance
    /\ UNCHANGED <<mode, run, sessVars, planVars, devVars, check_mode, do_backup, current_ports,
                   ignored, backup_file, ret>>

\* the write raises (non-zero code, transport or parse error)
WriteFails ==
    /\ mode = "apply" /\ pc = "apply" /\ PayloadReady
    /\ requests' = Append(requests, ChangeWrites(plan.changes[idx])[sub])
    /\ outcome' = "SwitchError"
    /\ pc' = "done"
    /\ UNCHANGED <<mode, run, sessVars, planVars, devVars, check_mode, do_backup, current_ports,
                   idx, sub, applied, ignored, backup_file, ret>>

\* variant: the residual planned from the state read before the writes
ResidualPlanStale ==
    build_device_plan(current, DesiredN, FALSE, TRUE, TRUE, safety_port_id)

\* variant: no residual is ever found
ResidualPlanSkipped == EmptyPlan

\* driver.py:557-565: the plan still outstanding after the writes
ResidualPlan ==
    build_device_plan(ReadCurrentN(dev_vlans, dev_pvlan, dev_ports), DesiredN,
                      FALSE, TRUE, TRUE, safety_port_id)

\* driver.py:557-574
Verify ==
    /\ mode = "apply" /\ pc = "verify"
    /\ requests' = Append(requests, ReadRequest)
    /\ IF ResidualPlan.changes # <<>>
       THEN /\ outcome' = "VerificationError"
            /\ ret' = [remaining_diff |-> render_diff(ResidualPlan)]
       ELSE /\ outcome' = "returned"
            /\ ret' = [changed |-> TRUE, diff |-> render_diff(plan),
                       backup_file |-> backup_file, applied |-> applied]
    /\ pc' = "done"
    /\ UNCHANGED <<mode, run, sessVars, planVars, devVars, check_mode, do_backup, current_ports,
                   idx, sub, applied, ignored, backup_file>>

\* apply_device_config is called again with the same arguments after it
\* returned; nothing touched the switch in between
Rerun ==
    /\ mode = "apply" /\ pc = "done"
    /\ outcome = "returned"
    /\ run = 1
    /\ run' = 2
    /\ pc' = "start"
    /\ plan' = EmptyPlan
    /\ current_ports' = <<>>
    /\ idx' = 0 /\ sub' = 0
    /\ applied' = <<>> /\ requests' = <<>>
    /\ backup_file' = ""
    /\ outcome' = "running"
    /\ ret' = <<>>
    /\ UNCHANGED <<mode, sessVars, current, desired, allow_vlan_delete, allow_vlan_membership,
                   allow_vlan_rename, safety_port_id, devVars, check_mode, do_backup,
                   ignored>>

\* the switch as shipped: every port an access port of VLAN 1
DefaultPvlan ==
    [i \in 0..(MaxPort - 1) |->
        [vlan_type |-> "access", access_vlan |-> 1, native_vlan |-> 1,
         permit_vlans |-> {}]]

\* the first port moved to VLAN k as an access port
PvlanWith(k) == [DefaultPvlan EXCEPT ![0].access_vlan = k]

DevPort(pid, up, speed) ==
    [port_id |-> pid, admin_up |-> up, speed_duplex |-> speed,
     flow_control |-> Some(FALSE)]

DefaultPorts == [p \in PortIds |-> DevPort(p, TRUE, Some("Auto"))]

\* VLAN runs: a switch with the VLANs 1..k and its first port in VLAN k, a
\* desired config of
\* renames, absent entries and memberships, in either monotone order.
VlanRuns ==
    /\ \E k \in VlanIds : /\ dev_vlans = [v \in 1..k |-> "a"]
                          /\ dev_pvlan = PvlanWith(k)
    /\ dev_ports = DefaultPorts
    /\ \E dv \in Dicts(VlanIds,
                     {[name |-> Some("b"), tagged_ports |-> <<>>, untagged_ports |-> <<>>,
                       state |-> "present"],
                      [name |-> None, tagged_ports |-> <<>>, untagged_ports |-> <<>>,
                       state |-> "absent"],
                      [name |-> Some("a"), tagged_ports |-> <<1>>, untagged_ports |-> <<0>>,
                       state |-> "present"]}, MkVlan, Monotone) :
          desired = DeviceConfig(dv, EmptyDict)
    /\ check_mode \in BOOLEAN
    /\ do_backup \in BOOLEAN
    /\ safety_port_id = Some(MaxPort)

\* Port runs: ports up or down or with an unreadable speed, a desired config
\* of admin and speed settings, every safety port.
PortRuns ==
    /\ dev_vlans = [v \in {1} |-> "a"]
    /\ dev_pvlan = DefaultPvlan
    /\ \E f \in [PortIds -> {<<TRUE, Some("Auto")>>, <<FALSE, Some("Auto")>>,
                             <<TRUE, None>>}] :
          dev_ports = [p \in PortIds |-> DevPort(p, f[p][1], f[p][2])]
    /\ \E dp \in Dicts(PortIds,
                     {[admin_up |-> b[1], speed_duplex |-> b[2], flow_control |-> None,
                       state |-> "present"] :
                          b \in {<<None, Some("1000M/Full")>>, <<Some(FALSE), None>>,
                                 <<Some(FALSE), Some("1000M/Full")>>, <<Some(TRUE), None>>}},
                     MkPort, InOrder) :
          desired = DeviceConfig(EmptyDict, dp)
    /\ check_mode = FALSE
    /\ do_backup = FALSE
    /\ safety_port_id \in {Some(p) : p \in PortIds}

\* Mixed runs: every VLAN and every port listed, so that creates, updates
\* and port updates meet in one plan.
MixedRuns ==
    /\ \E k \in VlanIds : /\ dev_vlans = [v \in 1..k |-> "a"]
                          /\ dev_pvlan = DefaultPvlan
    /\ dev_ports = DefaultPorts
    /\ desired = DeviceConfig(
          [keys |-> Reverse(Ascending(VlanIds)),
           val |-> [v \in VlanIds |->
                      VlanConfig(v, Some("b"), <<>>, IF v = 1 THEN Ascending(0..(MaxPort - 1))
                                                    ELSE <<>>, "present")]],
          [keys |-> Reverse(Ascending(PortIds)),
           val |-> [p \in PortIds |->
                      PortConfig(p, None, Some("1000M/Full"), None, "present")]])
    /\ check_mode = FALSE
    /\ do_backup = TRUE
    /\ safety_port_id = Some(MaxPort)

\* Unnamed runs: one desired VLAN with no name given and the first port as
\* its untagged member, on a switch as shipped with the VLANs 1..k.
UnnamedRuns ==
    /\ \E k \in VlanIds : dev_vlans = [v \in 1..k |-> "a"]
    /\ dev_pvlan = DefaultPvlan
    /\ dev_ports = DefaultPorts
    /\ \E v \in VlanIds :
          desired = DeviceConfig(
              [keys |-> <<v>>,
               val |-> [x \in {v} |-> VlanConfig(v, None, <<>>, <<0>>, "present")]],
              EmptyDict)
    /\ check_mode = FALSE
    /\ do_backup = FALSE
    /\ safety_port_id = Some(MaxPort)

\* Flow runs: one port whose flow control reads On, Off or neither, a
\* desired entry for it with every choice of given and omitted fields;
\* the safety port is another port.
FlowRuns ==
    /\ dev_vlans = [v \in {1} |-> "a"]
    /\ dev_pvlan = DefaultPvlan
    /\ \E p \in PortIds, up \in BOOLEAN, flow \in OptBool :
          /\ dev_ports = [q \in PortIds |->
                            IF q = p
                            THEN [DevPort(q, up, Some("Auto")) EXCEPT !.flow_control = flow]
                            ELSE DevPort(q, TRUE, Some("Auto"))]
          /\ \E a \in OptBool, sp \in {None, Some("1000M/Full")}, fl \in OptBool :
                desired = DeviceConfig(
                    EmptyDict,
                    [keys |-> <<p>>,
                     val |-> [q \in {p} |-> PortConfig(p, a, sp, fl, "present")]])
          /\ safety_port_id = Some(IF p = 1 THEN MaxPort ELSE 1)
    /\ check_mode = FALSE
    /\ do_backup = FALSE

InitApply ==
    /\ mode = "apply"
    /\ run = 1
    /\ SessionIdle
    /\ pc = "start"
    /\ current = DeviceConfig(EmptyDict, EmptyDict)
    /\ plan = EmptyPlan
    /\ allow_vlan_delete = FALSE
    /\ allow_vlan_membership = TRUE
    /\ allow_vlan_rename = TRUE
    /\ current_ports = <<>>
    /\ idx = 0 /\ sub = 0
    /\ applied = <<>> /\ requests = <<>> /\ ignored = FALSE
    /\ backup_file = ""
    /\ outcome = "running"
    /\ ret = <<>>
    /\ \/ VlanRuns
       \/ PortRuns
       \/ MixedRuns
       \/ UnnamedRuns
       \/ FlowRuns

NextApply ==
    \/ ReadAndPlan
    \/ ReadFails
    \/ Backup
    \/ BackupFails
    \/ PortPayloadFails
    \/ WriteOk
    \/ WriteIgnored
    \/ WriteFails
    \/ Verify
    \/ Rerun

SpecApply == InitApply /\ [][NextApply]_vars

-----------------------------------------------------------------------------
(* client/session.py: JTComSession                                         *)

\* client/errors.py:8-10
CODE_OK == 0

CODE_PARAM_ERR == 1

CODE_AUTH_EXPIRED == 11

\* session calls made one after the other in a behaviour
MaxCalls == 2

\* what comes back for a request: a JSON body with a code and a data field,
\* a body that is not JSON, no response at all (a transport error) or a
\* non-2xx status, the last two raised by client/http.py
Json(code, data) == [kind |-> "json", body |-> Some([code |-> code, data |-> data])]

Garbage == [kind |-> "garbage", body |-> None]

NoResponse == [kind |-> "failed", body |-> None]

BadStatus == [kind |-> "status", body |-> None]

Responses ==
    {Json(c, d) : c \in {CODE_OK, CODE_PARAM_ERR, CODE_AUTH_EXPIRED},
                  d \in {"", "invalid vid"}}
    \cup {Garbage, NoResponse, BadStatus}

Paths == {"/staticvlan.cgi", "/port.cgi"}

\* vendor/jtcom/endpoints.py
PORT_SETTINGS == "/port.cgi"

VLAN_STATIC == "/vlan.cgi"

VLAN_CREATE_DELETE == "/staticvlan.cgi"

VLAN_PORT_SET == "/vlanport.cgi"

CONFIG_BACKUP == "/config.cgi"

LoginRequest(r) == [op |-> "login", resp |-> r]

\* session.py:106
LogoutRequest(r) == [op |-> "logout", form |-> [cmd |-> "logout"], resp |-> r]

\* session.py:226-237: the form sent is the caller's data plus page=inside
PostRequest(r) ==
    [op |-> "post", path |-> call.path,
     form |-> [page |-> "inside", data |-> call.data], resp |-> r]

\* session.py:139-146, 208-215: a GET of the path with its query
GetRequest(r) == [op |-> "get", path |-> call.path, params |-> call.data, resp |-> r]

\* vlan_ops.py:92-99: the POST of vlan_delete, handed to the HTTP client
DeleteRequest(r) ==
    [op |-> "post_form", path |-> VLAN_CREATE_DELETE,
     form |-> [del |-> vlan_delete(call.data).del, cmd |-> "del", page |-> "inside"],
     resp |-> r]

\* the call ends by raising `exc`
Raise(exc) ==
    /\ outcome' = exc
    /\ pc' = "idle"

\* the call returns to its caller
Return ==
    /\ outcome' = "returned"
    /\ pc' = "idle"

\* the call goes on at `next`, or returns when nothing is left to do
Goto(next) ==
    IF next = "idle" THEN Return
    ELSE pc' = next /\ UNCHANGED outcome

\* variant: a rejected login leaves the flag as it was
RejectedKeepsFlag(was) == was

\* session.py:91: the flag after a rejected login
Rejected(was) == FALSE

\* session.py:73-97 and http.py: login() with the response r; the call goes
\* on at `next` when the login succeeds
login(r, next) ==
    /\ requests' = Append(requests, LoginRequest(r))
    /\ CASE r.kind = "failed" ->
               /\ Raise("RequestError")
               /\ UNCHANGED logged_in
         [] r.kind = "status" ->
               /\ Raise("ResponseError")
               /\ UNCHANGED logged_in
         [] r.kind = "garbage" ->
               /\ Raise("ParseError")
               /\ UNCHANGED logged_in
         [] r.kind = "json" /\ Get(r.body).code # CODE_OK ->
               /\ logged_in' = Rejected(logged_in)
               /\ Raise("AuthError")
         [] OTHER ->
               /\ logged_in' = TRUE
               /\ Goto(next)

\* variant: logout() without its except clause
logout_raising(r) ==
    /\ requests' = Append(requests, LogoutRequest(r))
    /\ logged_in' = FALSE
    /\ CASE r.kind = "failed" -> Raise("RequestError")
         [] r.kind = "status" -> Raise("ResponseError")
         [] OTHER -> Return

\* session.py:99-111: logout() with the response r; the body of the response
\* is not read
logout(r) ==
    /\ requests' = Append(requests, LogoutRequest(r))
    /\ logged_in' = FALSE
    /\ Return

SessionFrame == UNCHANGED <<mode, planVars, devVars, check_mode, do_backup,
                            current_ports, idx, sub, applied, ignored, backup_file>>

\* a call of the session: the method, its arguments, and, kept for the
\* record, the flag when it was called and the method and outcome of the
\* call before it
Call(op, path, data) ==
    [op |-> op, path |-> path, data |-> data, before |-> logged_in,
     prev |-> IF run = 0 THEN <<"none", "none">> ELSE <<call.op, outcome>>]

\* a method of the session is called, starting at `first`
Begin(c, first) ==
    /\ mode = "session" /\ pc = "idle"
    /\ run < MaxCalls
    /\ run' = run + 1
    /\ call' = c
    /\ pc' = first
    /\ requests' = <<>>
    /\ outcome' = "running"
    /\ ret' = <<>>
    /\ UNCHANGED logged_in
    /\ SessionFrame

\* post(path, data) is called on the session
BeginPost ==
    \E p \in Paths, d \in {"a", "b"} : Begin(Call("post", p, d), "ensure")

\* ensure_session() is called on the session
BeginEnsureSession == Begin(Call("ensure_session", "", ""), "ensure")

\* login() is called on the session
BeginLogin == Begin(Call("login", "", ""), "login")

\* logout() is called on the session
BeginLogout == Begin(Call("logout", "", ""), "logout")

\* where the call goes on after ensure_session()
AfterEnsure ==
    CASE call.op \in {"post", "vlan_create", "vlan_set_port", "apply_port_changes"} -> "post"
      [] call.op \in {"get", "download_config_backup"} -> "get"
      [] OTHER -> "idle"

\* session.py:73-97: login() called by the user of the session
Login ==
    /\ mode = "session" /\ pc = "login"
    /\ \E r \in Responses : login(r, "idle")
    /\ UNCHANGED <<run, call, ret>>
    /\ SessionFrame

\* session.py:99-111: logout() called by the user of the session
Logout ==
    /\ mode = "session" /\ pc = "logout"
    /\ \E r \in Responses : logout(r)
    /\ UNCHANGED <<run, call, ret>>
    /\ SessionFrame

\* variant: ensure_session() logs in whatever the flag
NeedsLoginAlways(flag) == TRUE

\* session.py:115: the test of ensure_session()
NeedsLogin(flag) == ~flag

\* session.py:113-116: ensure_session() when logged in
EnsureSessionSkip ==
    /\ mode = "session" /\ pc = "ensure"
    /\ ~NeedsLogin(logged_in)
    /\ Goto(AfterEnsure)
    /\ UNCHANGED <<run, call, logged_in, requests, ret>>
    /\ SessionFrame

\* session.py:113-116: ensure_session() when logged out
EnsureSessionLogin ==
    /\ mode = "session" /\ pc = "ensure"
    /\ NeedsLogin(logged_in)
    /\ \E r \in Responses : login(r, AfterEnsure)
    /\ UNCHANGED <<run, call, ret>>
    /\ SessionFrame

\* variant: a retried POST answered auth-expired is retried again
RetryAlways(code, where) == code = CODE_AUTH_EXPIRED

\* session.py:172: the first POST was answered auth-expired
RetryOn(code, where) == where = "post" /\ code = CODE_AUTH_EXPIRED

\* variant: an auth-expired answer passes for success
IsOkOrExpired(code) == code \in {CODE_OK, CODE_AUTH_EXPIRED}

\* session.py:177: the code of success
IsOk(code) == code = CODE_OK

\* session.py:178-183
SwitchError(body, path) ==
    [code |-> body.code, message |-> body.data, endpoint |-> path, payload |-> body]

\* session.py:170-185: _do_post, first (pc = "post") or retried (pc =
\* "retry"), and what post() does with its result
DoPost ==
    /\ mode = "session" /\ pc \in {"post", "retry"}
    /\ \E r \in Responses :
          /\ requests' = Append(requests, PostRequest(r))
          /\ CASE r.kind = "failed" -> Raise("RequestError") /\ UNCHANGED ret
               [] r.kind = "status" -> Raise("ResponseError") /\ UNCHANGED ret
               [] r.kind = "garbage" -> Raise("ParseError") /\ UNCHANGED ret
               [] r.kind = "json" /\ RetryOn(Get(r.body).code, pc) ->
                     /\ pc' = "relogin"
                     /\ UNCHANGED <<outcome, ret>>
               [] r.kind = "json" /\ ~RetryOn(Get(r.body).code, pc)
                                  /\ ~IsOk(Get(r.body).code) ->
                     /\ Raise("SwitchError")
                     /\ ret' = SwitchError(Get(r.body), call.path)
               [] OTHER ->
                     /\ outcome' = "returned"
                     /\ pc' = "idle"
                     /\ ret' = Get(r.body)
    /\ UNCHANGED <<run, call, logged_in>>
    /\ SessionFrame

\* session.py:173-175: the re-login after an auth-expired answer
Relogin ==
    /\ mode = "session" /\ pc = "relogin"
    /\ \E r \in Responses : login(r, "retry")
    /\ UNCHANGED <<run, call, ret>>
    /\ SessionFrame

\* get(path) is called on the session
BeginGet ==
    \E p \in {VLAN_STATIC, PORT_SETTINGS} : Begin(Call("get", p, ""), "ensure")

\* download_config_backup() is called on the session
BeginDownloadConfigBackup ==
    Begin(Call("download_config_backup", CONFIG_BACKUP, "conf_backup"), "ensure")

\* the write operations that post through the session, one call of each
WriteCalls ==
    {Call("vlan_create", VLAN_CREATE_DELETE, vlan_create(2, Some("a"))),
     Call("vlan_set_port", VLAN_PORT_SET, vlan_set_port(<<0>>, "access", Some(2), None, <<>>)),
     Call("apply_port_changes", PORT_SETTINGS,
          build_port_payload(PortConfig(1, Some(FALSE), Some("Auto"), Some(FALSE), "present"),
                             DevPort(1, TRUE, Some("Auto"))))}

\* vlan_ops.py:58-67, 152-160, port_ops.py:83: a write operation is called
\* with the session; it is one session.post
BeginWrite == \E c \in WriteCalls : Begin(c, "ensure")

\* the lists vlan_delete is called with
DeleteLists == {<<>>, <<1>>, <<1, 1>>, <<2>>, <<1, 2>>, <<3, 2>>, <<3, 1, 2>>}

\* vlan_ops.py:70: vlan_delete(session, vlan_ids) is called
BeginVlanDelete ==
    \E ids \in DeleteLists : Begin(Call("vlan_delete", VLAN_CREATE_DELETE, ids), "vlan_delete")

\* session.py:139-147, 208-216 and http.py: the GET of get() and of
\* download_config_backup(); the body is returned as it is
DoGet ==
    /\ mode = "session" /\ pc = "get"
    /\ \E r \in Responses :
          /\ requests' = Append(requests, GetRequest(r))
          /\ CASE r.kind = "failed" -> Raise("RequestError") /\ UNCHANGED ret
               [] r.kind = "status" -> Raise("ResponseError") /\ UNCHANGED ret
               [] OTHER -> Return /\ ret' = r
    /\ UNCHANGED <<run, call, logged_in>>
    /\ SessionFrame

\* vlan_ops.py:87-89: nothing is left to delete
VlanDeleteRefused ==
    /\ mode = "session" /\ pc = "vlan_delete"
    /\ safe_ids(call.data) = <<>>
    /\ Raise("ValueError")
    /\ UNCHANGED <<run, call, logged_in, requests, ret>>
    /\ SessionFrame

\* vlan_ops.py:91-100, 163-187: the POST goes to session._http.post_form and
\* its response to _check_response
VlanDelete ==
    /\ mode = "session" /\ pc = "vlan_delete"
    /\ safe_ids(call.data) # <<>>
    /\ \E r \in Responses :
          /\ requests' = Append(requests, DeleteRequest(r))
          /\ CASE r.kind = "failed" -> Raise("RequestError") /\ UNCHANGED ret
               [] r.kind = "status" -> Raise("ResponseError") /\ UNCHANGED ret
               [] r.kind = "garbage" -> Raise("ParseError") /\ UNCHANGED ret
               [] r.kind = "json" /\ Get(r.body).code # 0 ->
                     /\ Raise("SwitchError")
                     /\ ret' = [code |-> Get(r.body).code, message |-> Get(r.body).data,
                                endpoint |-> VLAN_CREATE_DELETE,
                                payload |-> DeleteRequest(r).form]
               [] OTHER -> Return /\ UNCHANGED ret
    /\ UNCHANGED <<run, call, logged_in>>
    /\ SessionFrame

InitSession ==
    /\ mode = "session"
    /\ run = 0
    /\ pc = "idle"
    /\ current = DeviceConfig(EmptyDict, EmptyDict)
    /\ desired = DeviceConfig(EmptyDict, EmptyDict)
    /\ plan = EmptyPlan
    /\ allow_vlan_delete = FALSE
    /\ allow_vlan_membership = TRUE
    /\ allow_vlan_rename = TRUE
    /\ safety_port_id = None
    /\ ApplyIdle
    /\ logged_in \in BOOLEAN
    /\ call = <<>>

NextSession ==
    \/ BeginPost
    \/ BeginEnsureSession
    \/ BeginLogin
    \/ BeginLogout
    \/ Login
    \/ Logout
    \/ EnsureSessionSkip
    \/ EnsureSessionLogin
    \/ DoPost
    \/ Relogin
    \/ BeginGet
    \/ BeginDownloadConfigBackup
    \/ BeginWrite
    \/ BeginVlanDelete
    \/ DoGet
    \/ VlanDeleteRefused
    \/ VlanDelete

SpecSession == InitSession /\ [][NextSession]_vars

-----------------------------------------------------------------------------
(* utils/normalize.py called on its own                                    *)

\* the longest port list given to the normalizer
MaxLen == 3

\* every list of at most n elements of S: unsorted, with duplicates
Lists(S, n) == UNION {[1..k -> S] : k \in 0..n}

\* speed/duplex tokens: canonical, aliases in several spellings, unknown
Tokens ==
    {"Auto", "AUTO", "1000M/Full", "1G/Full", "1g/full", "1gfull", "100MHalf", "100mhalf",
     "bogus"}

\* One VLAN (VLAN 1 or the highest ID) with every pair of port lists.
VlanListConfigs ==
    \E v \in {1, MaxVid},
       t \in Lists(0..(MaxPort - 1), MaxLen), u \in Lists(0..(MaxPort - 1), MaxLen) :
        desired = DeviceConfig([keys |-> <<v>>,
                                val |-> [k \in {v} |-> VlanConfig(v, Some("a"), t, u, "present")]],
                               EmptyDict)

\* Ports in every insertion order, with every token.
PortTokenConfigs ==
    \E dp \in Dicts(PortIds,
                    {[admin_up |-> Some(TRUE), speed_duplex |-> t, flow_control |-> None,
                      state |-> "present"] : t \in {None} \cup {Some(x) : x \in Tokens}}
                    \cup {[admin_up |-> None, speed_duplex |-> t,
                           flow_control |-> Some(FALSE), state |-> "absent"] :
                              t \in {None, Some("1g/full")}}, MkPort, AnyOrder) :
        desired = DeviceConfig(EmptyDict, dp)

\* VLANs in every insertion order, with an overlap or without.
VlanOrderConfigs ==
    \E dv \in Dicts(VlanIds,
                    {[name |-> None, tagged_ports |-> <<1, 0>>, untagged_ports |-> <<0, 0>>,
                      state |-> "present"],
                     [name |-> Some("b"), tagged_ports |-> <<>>, untagged_ports |-> <<1>>,
                      state |-> "absent"]}, MkVlan, AnyOrder) :
        desired = DeviceConfig(dv, AllPortsUp)

\* the config x to normalize is in `desired`
InitNormalize ==
    /\ mode = "normalize"
    /\ run = 1
    /\ SessionIdle
    /\ pc = "start"
    /\ current = DeviceConfig(EmptyDict, EmptyDict)
    /\ plan = EmptyPlan
    /\ allow_vlan_delete = FALSE
    /\ allow_vlan_membership = TRUE
    /\ allow_vlan_rename = TRUE
    /\ safety_port_id = None
    /\ ApplyIdle
    /\ \/ VlanListConfigs
       \/ PortTokenConfigs
       \/ VlanOrderConfigs

NormalizeFrame ==
    UNCHANGED <<mode, run, sessVars, desired, plan, allow_vlan_delete, allow_vlan_membership,
                allow_vlan_rename, safety_port_id, devVars, check_mode, do_backup,
                current_ports, idx, sub, applied, requests, ignored, backup_file, outcome>>

\* normalize_device_config(x), kept in `ret`
NormalizeOnce ==
    /\ mode = "normalize" /\ pc = "start"
    /\ ret' = normalize_device_config(desired)
    /\ pc' = "once"
    /\ UNCHANGED current
    /\ NormalizeFrame

\* normalize_device_config of that result, kept in `current`
NormalizeAgain ==
    /\ mode = "normalize" /\ pc = "once"
    /\ current' = normalize_device_config(ret)
    /\ pc' = "twice"
    /\ UNCHANGED ret
    /\ NormalizeFrame

NextNormalize ==
    \/ NormalizeOnce
    \/ NormalizeAgain

SpecNormalize == InitNormalize /\ [][NextNormalize]_vars

-----------------------------------------------------------------------------
(* Reading a plan                                                          *)

\* a plan has been computed in this state
Planned == pc = "planned"

ChangeIdx == 1..Len(plan.changes)

KindAt(i) == plan.changes[i].kind

\* the VLAN ID or port ID a change is about
IdAt(i) == plan.changes[i].key[2]

IsVlanChange(i, vid) == plan.changes[i].key = VlanKey(vid)

IsPortChange(i, pid) == plan.changes[i].key = PortKey(pid)

HasChange(kind, key) ==
    \E i \in ChangeIdx : KindAt(i) = kind /\ plan.changes[i].key = key

CountChanges(kind, key) ==
    Cardinality({i \in ChangeIdx : KindAt(i) = kind /\ plan.changes[i].key = key})

\* does the port_update of port pid carry a diff of field f
PortDiffHas(pid, f) ==
    \E i \in ChangeIdx : /\ KindAt(i) = "port_update"
                         /\ IsPortChange(i, pid)
                         /\ f \in DOMAIN plan.changes[i].details.diffs

DefaultFlags ==
    allow_vlan_delete = FALSE /\ allow_vlan_membership = TRUE /\ allow_vlan_rename = TRUE

KindRank(kind) ==
    CASE kind = "vlan_create" -> 1
      [] kind = "vlan_update" -> 2
      [] kind = "port_update" -> 3
      [] kind = "vlan_delete" -> 4

-----------------------------------------------------------------------------
(* Claims about build_device_plan                                          *)

\* a desired port entry asks for the port to be down: admin_up=False given
\* directly, or state=absent
WantsDown(cfg_p) == cfg_p.state = "absent" \/ cfg_p.admin_up = Some(FALSE)

\* C1 (as claimed): when desired asks for the safety port to be down
\* (admin_up=False or state=absent) the plan has no admin_up diff for that
\* port while its other field diffs are still emitted; and with
\* safety_port_id None a port that is up and asked to be down gets its
\* admin_up diff.
C1_SafetyPortPlan ==
    Planned =>
        \A pid \in DOMAIN desired.ports.val :
            LET cfg_p == desired.ports.val[pid]
            IN (In(pid, current.ports) /\ WantsDown(cfg_p)) =>
                LET cur_p == current.ports.val[pid]
                IN /\ safety_port_id = Some(pid) =>
                        /\ ~PortDiffHas(pid, "admin_up")
                        /\ PortDiffHas(pid, "speed_duplex") <=>
                               (cfg_p.speed_duplex # None
                                /\ cfg_p.speed_duplex # cur_p.speed_duplex)
                        /\ PortDiffHas(pid, "flow_control") <=>
                               (cfg_p.flow_control # None
                                /\ cfg_p.flow_control # cur_p.flow_control)
                   /\ (safety_port_id = None /\ cur_p.admin_up = Some(TRUE)) =>
                        PortDiffHas(pid, "admin_up")

\* The part of C1 the code does keep: admin_up=False given directly on the
\* safety port never yields an admin_up diff, the other diffs stay, and
\* without a safety port the direct disable is planned.
SafetyPortDirectDisable ==
    Planned =>
        \A pid \in DOMAIN desired.ports.val :
            LET cfg_p == desired.ports.val[pid]
            IN (In(pid, current.ports) /\ cfg_p.admin_up = Some(FALSE)) =>
                LET cur_p == current.ports.val[pid]
                IN /\ safety_port_id = Some(pid) =>
                        /\ ~PortDiffHas(pid, "admin_up")
                        /\ PortDiffHas(pid, "speed_duplex") <=>
                               (cfg_p.speed_duplex # None
                                /\ cfg_p.speed_duplex # cur_p.speed_duplex)
                   /\ (safety_port_id = None /\ cur_p.admin_up = Some(TRUE)) =>
                        PortDiffHas(pid, "admin_up")

\* C3: no plan, under any flags, holds a vlan_delete of VLAN 1, whether
\* desired marks VLAN 1 absent or does not list it.
C3_Vlan1NeverDeleted ==
    \A i \in ChangeIdx : ~(KindAt(i) = "vlan_delete" /\ plan.changes[i].details.vlan_id = 1)

\* VLAN 1 is on the device, desired does not list it, deletes are allowed
\* and the plan does delete another VLAN
C3_Witness ==
    /\ Planned
    /\ allow_vlan_delete
    /\ In(1, current.vlans)
    /\ ~In(1, desired.vlans)
    /\ \E i \in ChangeIdx : KindAt(i) = "vlan_delete"

\* VLAN 1 is on the device and desired marks it absent, deletes allowed
Vlan1MarkedAbsentReached ==
    /\ Planned
    /\ allow_vlan_delete
    /\ In(1, current.vlans)
    /\ In(1, desired.vlans) /\ desired.vlans.val[1].state = "absent"

\* C5: creates precede updates precede port updates precede deletes.
C5_KindOrder ==
    \A i, j \in ChangeIdx : i < j => KindRank(KindAt(i)) <= KindRank(KindAt(j))

\* a plan holding all four kinds
C5_Witness ==
    /\ Planned
    /\ \A k \in {"vlan_create", "vlan_update", "port_update", "vlan_delete"} :
          \E i \in ChangeIdx : KindAt(i) = k

\* C6: within a kind, creates, updates and port updates are strictly
\* ascending by ID and deletes strictly descending, whatever the insertion
\* order of the inputs.
C6_OrderWithinKind ==
    \A i, j \in ChangeIdx :
        (i < j /\ KindAt(i) = KindAt(j)) =>
            IF KindAt(i) = "vlan_delete" THEN IdAt(i) > IdAt(j) ELSE IdAt(i) < IdAt(j)

\* desired inserted as {3, 1, 2}, all three created in the order 1, 2, 3
C6_Witness ==
    /\ Planned
    /\ desired.vlans.keys = <<3, 1, 2>>
    /\ Len(plan.changes) = 3
    /\ \A i \in 1..3 : KindAt(i) = "vlan_create" /\ IdAt(i) = i

\* two deletes, highest ID first, from a current inserted in ascending order
TwoDeletesReached ==
    /\ Planned
    /\ current.vlans.keys = <<1, 2, 3>>
    /\ Len(plan.changes) = 2
    /\ KindAt(1) = "vlan_delete" /\ IdAt(1) = 3
    /\ KindAt(2) = "vlan_delete" /\ IdAt(2) = 2

\* C7 (as claimed): with the default flags, a desired VLAN with state=absent
\* that exists in current and is not VLAN 1 gets exactly one vlan_delete and
\* no vlan_create or vlan_update.
C7_DeleteOnAbsent ==
    (Planned /\ DefaultFlags) =>
        \A vid \in DOMAIN desired.vlans.val :
            (desired.vlans.val[vid].state = "absent" /\ In(vid, current.vlans) /\ vid # 1) =>
                /\ CountChanges("vlan_delete", VlanKey(vid)) = 1
                /\ ~HasChange("vlan_create", VlanKey(vid))
                /\ ~HasChange("vlan_update", VlanKey(vid))

\* C8 (as claimed): a desired VLAN with state=absent that is not in current
\* gets no change at all.
C8_AbsentMissingNoop ==
    Planned =>
        \A vid \in DOMAIN desired.vlans.val :
            (desired.vlans.val[vid].state = "absent" /\ ~In(vid, current.vlans)) =>
                \A i \in ChangeIdx : ~IsVlanChange(i, vid)

\* no change of the plan is about a VLAN that current has and desired does
\* not list, and an empty desired gives an empty plan
UnlistedUntouched ==
    /\ \A vid \in DOMAIN current.vlans.val :
          ~In(vid, desired.vlans) => \A i \in ChangeIdx : ~IsVlanChange(i, vid)
    /\ (desired.vlans.keys = <<>> /\ desired.ports.keys = <<>>) => plan.changes = <<>>

\* C9 (as claimed): under any flags.
C9_UnlistedUntouched == Planned => UnlistedUntouched

\* C9 (amended): when allow_vlan_delete is false.
C9_UnlistedUntouchedNoDelete == (Planned /\ ~allow_vlan_delete) => UnlistedUntouched

\* deletes are off, current has a VLAN other than 1 that desired does not
\* list, and the plan does change something else
C9_Witness ==
    /\ Planned
    /\ ~allow_vlan_delete
    /\ \E vid \in DOMAIN current.vlans.val : vid # 1 /\ ~In(vid, desired.vlans)
    /\ plan.changes # <<>>

-----------------------------------------------------------------------------
(* Claims about apply_device_config                                        *)

Done == mode = "apply" /\ pc = "done"

\* C2 (as claimed): no run sends an update_port write that disables the
\* safety port: a safety port the first read found up is still up on the
\* switch, and no update_port request for it carries state=0.
C2_SafetyPortNeverDisabled ==
    (mode = "apply" /\ current_ports # <<>>) =>
        LET p == Get(safety_port_id)
        IN CurrentSetting(p).admin_up =>
              /\ dev_ports[p].admin_up
              /\ \A i \in 1..Len(requests) :
                    ~(/\ requests[i].op = "update_port"
                      /\ requests[i].portid = p - 1
                      /\ requests[i].state = "0")

\* the state of the switch read back, normalized and planned against the
\* same desired config
StateAfterWrites == ReadCurrentN(dev_vlans, dev_pvlan, dev_ports)

Outstanding ==
    build_device_plan(StateAfterWrites, normalize_device_config(desired),
                      FALSE, TRUE, TRUE, safety_port_id)

\* C4: a run outside check mode with a non-empty plan that got past its
\* writes ends with a re-read; it raises VerificationError carrying the
\* rendered residual plan exactly when that residual plan is non-empty, and
\* otherwise returns changed=true, so a normal return with changed=true has
\* an empty residual plan.
C4_PostApplyVerification ==
    (Done /\ ~check_mode /\ plan.changes # <<>>) =>
        /\ outcome \in {"returned", "VerificationError"} =>
              /\ Len(applied) = Len(plan.changes)
              /\ requests[Len(requests)] = ReadRequest
              /\ IF Outstanding.changes # <<>>
                 THEN /\ outcome = "VerificationError"
                      /\ ret.remaining_diff = render_diff(Outstanding)
                 ELSE /\ outcome = "returned"
                      /\ ret.changed
        /\ Len(applied) = Len(plan.changes) =>
              outcome \in {"returned", "VerificationError", "ReadError"}

\* the switch acknowledged the create of a VLAN without executing it: the
\* run raises VerificationError and the residual diff is exactly one
\* vlan_create of that VLAN
C4_Witness ==
    /\ Done
    /\ outcome = "VerificationError"
    /\ ignored
    /\ \E vid \in VlanIds :
          /\ \E i \in 1..Len(requests) :
                requests[i].op = "vlan_create" /\ requests[i].vlanid = vid
          /\ ret.remaining_diff.total_changes = 1
          /\ ret.remaining_diff.changes[1].kind = "vlan_create"
          /\ ret.remaining_diff.changes[1].details.vlan_id = vid

\* a run that wrote, re-read and returned changed=true
VerifiedReturnReached ==
    Done /\ outcome = "returned" /\ Writes # <<>> /\ ret.changed

\* C10 (as claimed): the plan has no vlan_create of VLAN 1 and no
\* vlan_update of VLAN 1 with a name diff, and no staticvlan add request
\* (create or rename) for VLAN 1 is sent.
C10_Vlan1NeverCreatedOrRenamed ==
    /\ \A i \in ChangeIdx :
          IsVlanChange(i, 1) =>
              /\ KindAt(i) # "vlan_create"
              /\ KindAt(i) = "vlan_update" => "name" \notin DOMAIN plan.changes[i].details.diffs
    /\ \A i \in 1..Len(requests) :
          ~(requests[i].op = "vlan_create" /\ requests[i].vlanid = 1)

\* the run sent every write of its plan, the switch executed each of them,
\* and the run went on to its verification
FaithfullyApplied ==
    /\ Done
    /\ plan.changes # <<>>
    /\ ~ignored
    /\ Len(applied) = Len(plan.changes)
    /\ outcome \in {"returned", "VerificationError"}

\* C11 (as claimed): after the writes of the plan were all executed by the
\* switch, re-reading, normalizing and replanning against the same desired
\* config gives an empty plan.
C11_PlanIdempotence == FaithfullyApplied => Outstanding.changes = <<>>

\* a desired config free of what other claims are about: VLAN 1 is not
\* listed, every entry is present, and no port is untagged in two VLANs
PlainDesired ==
    /\ ~In(1, desired.vlans)
    /\ \A v \in DOMAIN desired.vlans.val : desired.vlans.val[v].state = "present"
    /\ \A v, w \in DOMAIN desired.vlans.val :
          v # w => Range(desired.vlans.val[v].untagged_ports)
                     \cap Range(desired.vlans.val[w].untagged_ports) = {}

\* C11 restricted to such configs
PlainPlanIdempotence == (FaithfullyApplied /\ PlainDesired) => Outstanding.changes = <<>>


\* what C12 says of the second call: changed=false, nothing applied, no
\* backup, and no request but the read
SecondRunIsNoop ==
    /\ outcome \in {"running", "returned", "ReadError"}
    /\ \A i \in 1..Len(requests) : requests[i] = ReadRequest
    /\ outcome = "returned" =>
          /\ ~ret.changed
          /\ ret.applied = <<>>
          /\ ret.backup_file = ""

\* C12 (as claimed): after any successful return, check mode included.
C12_RerunIdempotence == (mode = "apply" /\ run = 2) => SecondRunIsNoop

\* C12 (amended): after a successful return outside check mode, a second
\* call with the same arguments returns changed=false with applied=[] and
\* backup_file='' and sends no write and no backup download.
C12_RerunIdempotenceApplied ==
    (mode = "apply" /\ run = 2 /\ ~check_mode) => SecondRunIsNoop

\* the first call wrote to the switch and returned, and the second call
\* returned too
C12_Witness ==
    /\ Done /\ run = 2 /\ ~check_mode
    /\ outcome = "returned"
    /\ \E v \in DOMAIN dev_vlans : dev_vlans[v] = "b"

\* a first read succeeded and a plan was computed from it
PlanComputed == mode = "apply" /\ pc # "start" /\ ~(outcome = "ReadError" /\ applied = <<>>)

\* C13: when the computed plan is empty the call has returned changed=false
\* with applied=[] and backup_file='', whatever check_mode and the backup
\* option are, and the read is the only request it sent: no backup, no
\* write, no second read.
C13_EmptyPlanNoop ==
    (PlanComputed /\ plan.changes = <<>>) =>
        /\ pc = "done"
        /\ outcome = "returned"
        /\ ~ret.changed
        /\ ret.applied = <<>>
        /\ ret.backup_file = ""
        /\ ret.diff.total_changes = 0
        /\ backup_file = ""
        /\ requests = <<ReadRequest>>

\* an empty plan for a desired config that lists a VLAN, in check mode with
\* a backup requested
C13_Witness ==
    /\ PlanComputed /\ plan.changes = <<>> /\ run = 1
    /\ check_mode /\ do_backup
    /\ desired.vlans.keys # <<>>

\* the same outside check mode
EmptyPlanApplyModeReached ==
    /\ PlanComputed /\ plan.changes = <<>> /\ run = 1
    /\ ~check_mode /\ do_backup
    /\ desired.vlans.keys # <<>>

\* C14: in check mode with a non-empty plan the call returns changed=true
\* with the rendered diff of the plan, applied=[] and backup_file=''; the
\* read is the only request sent (no write, no backup download) and the
\* switch reads back as it did before.
C14_CheckModeNoSideEffects ==
    (PlanComputed /\ check_mode /\ plan.changes # <<>>) =>
        /\ pc = "done"
        /\ outcome = "returned"
        /\ ret.changed
        /\ ret.diff.changes = plan.changes
        /\ ret.diff.total_changes = Len(plan.changes)
        /\ ret.diff.summary = plan.summary
        /\ ret.applied = <<>>
        /\ ret.backup_file = ""
        /\ backup_file = ""
        /\ requests = <<ReadRequest>>
        /\ StateAfterWrites = current
        /\ ReadPorts(dev_ports) = current_ports

\* a check-mode call with a backup requested and a plan of two changes
C14_Witness ==
    /\ Done /\ check_mode /\ do_backup
    /\ outcome = "returned"
    /\ Len(plan.changes) >= 2

IsBackup(e) == e.op = "backup"

\* position of the first request of `requests` that satisfies Test, or 0
FirstIndex(Test(_)) ==
    IF \E i \in 1..Len(requests) : Test(requests[i])
    THEN CHOOSE i \in 1..Len(requests) :
            Test(requests[i]) /\ \A j \in 1..(i - 1) : ~Test(requests[j])
    ELSE 0

\* C15: in a run with a backup requested, a write is sent only after the
\* backup was downloaded and saved (the download precedes the first write
\* and the path of the file is recorded); a run whose backup step failed
\* raises that error and sends no write.
C15_BackupPrecedesMutation ==
    (mode = "apply" /\ do_backup) =>
        /\ Writes # <<>> =>
              /\ FirstIndex(IsBackup) > 0
              /\ FirstIndex(IsBackup) < FirstIndex(IsWrite)
              /\ backup_file # ""
        /\ (FirstIndex(IsBackup) > 0 /\ backup_file = "") =>
              /\ outcome = "BackupError"
              /\ pc = "done"
              /\ Writes = <<>>

\* a backup was saved and a write followed it
C15_Witness ==
    /\ mode = "apply" /\ do_backup /\ ~check_mode
    /\ backup_file # ""
    /\ Len(Writes) >= 2

\* a run ended by a failed backup
BackupErrorReached == Done /\ outcome = "BackupError" /\ plan.changes # <<>>

\* the key of the change a write request is about
WriteTarget(w) ==
    CASE w.op = "vlan_create" -> VlanKey(w.vlanid)
      [] w.op = "vlan_delete" -> VlanKey(w.del[1])
      [] w.op = "vlan_set_port" ->
            VlanKey(IF w.VlanType = "0" THEN w.AccessVlan ELSE w.PermitVlan[1])
      [] w.op = "update_port" -> PortKey(w.portid + 1)

\* the kinds of change a write request serves
WriteKinds(w) ==
    CASE w.op \in {"vlan_create", "vlan_set_port"} -> {"vlan_create", "vlan_update"}
      [] w.op = "vlan_delete" -> {"vlan_delete"}
      [] w.op = "update_port" -> {"port_update"}

PlanKeys == [i \in ChangeIdx |-> plan.changes[i].key]

\* position in the plan of the change with this key, 0 if there is none
PlanPos(key) ==
    IF \E i \in ChangeIdx : plan.changes[i].key = key
    THEN CHOOSE i \in ChangeIdx : plan.changes[i].key = key
    ELSE 0

\* C16: the writes sent are writes of changes of the plan, of the matching
\* kind, in plan order, with no change skipped; `applied` is the keys of the
\* changes done so far in that order; and a run that wrote and returned
\* gives changed=true, the diff of the plan computed before the writes, and
\* applied equal to all keys of the plan in plan order.
C16_ApplyOrder ==
    mode = "apply" =>
        /\ \A i \in 1..Len(Writes) :
              /\ PlanPos(WriteTarget(Writes[i])) > 0
              /\ plan.changes[PlanPos(WriteTarget(Writes[i]))].kind \in WriteKinds(Writes[i])
        /\ \A i, j \in 1..Len(Writes) :
              i < j => PlanPos(WriteTarget(Writes[i])) <= PlanPos(WriteTarget(Writes[j]))
        /\ \A k \in ChangeIdx :
              (\E i \in 1..Len(Writes) : PlanPos(WriteTarget(Writes[i])) > k) =>
                  \E i \in 1..Len(Writes) : PlanPos(WriteTarget(Writes[i])) = k
        /\ Len(applied) <= Len(plan.changes)
        /\ applied = SubSeq(PlanKeys, 1, Len(applied))
        /\ \A i \in 1..Len(Writes) : PlanPos(WriteTarget(Writes[i])) <= Len(applied) + 1
        /\ (Done /\ outcome = "returned" /\ Writes # <<>>) =>
              /\ ret.changed
              /\ ret.diff.changes = plan.changes
              /\ ret.diff.total_changes = Len(plan.changes)
              /\ ret.applied = PlanKeys
              /\ ret.backup_file = backup_file

\* a run that applied a create, an update and a port update and returned
C16_Witness ==
    /\ Done /\ outcome = "returned" /\ run = 1
    /\ \A k \in {"vlan_create", "vlan_update", "port_update"} :
          \E i \in ChangeIdx : KindAt(i) = k
    /\ Len(ret.applied) = Len(plan.changes)

\* the call raised
Failed == mode = "apply" /\ outcome \notin {"running", "returned"}

\* what holds in a state where a read or a write has raised: the call is
\* over, no dict is returned, a failed first read left no other request, and
\* a failed write is the last request, of the change after the applied ones
AbortedCleanly ==
    (Failed /\ outcome \in {"ReadError", "SwitchError"}) =>
        /\ pc = "done"
        /\ DOMAIN ret = {}
        /\ (outcome = "ReadError" /\ applied = <<>>) => requests = <<ReadRequest>>
        /\ (outcome = "ReadError" /\ applied # <<>>) =>
              /\ applied = PlanKeys
              /\ requests[Len(requests)] = ReadRequest
        /\ outcome = "SwitchError" =>
              /\ IsWrite(requests[Len(requests)])
              /\ Len(applied) < Len(plan.changes)
              /\ applied = SubSeq(PlanKeys, 1, Len(applied))
              /\ PlanPos(WriteTarget(requests[Len(requests)])) = Len(applied) + 1
              /\ \A i \in 1..Len(Writes) :
                    PlanPos(WriteTarget(Writes[i])) <= Len(applied) + 1

\* C17: a read or write that raises ends the call with that error and no
\* result; nothing more is sent and the switch keeps what the earlier writes
\* did (no step changes anything after the error); a failed first read, in
\* check mode too, leaves neither backup nor write.
C17_AbortOnFailure == []AbortedCleanly /\ [][~Failed]_vars

\* a write failed after an earlier change had renamed a VLAN on the switch
C17_Witness ==
    /\ Done /\ outcome = "SwitchError"
    /\ Len(applied) >= 1
    /\ \E v \in DOMAIN dev_vlans : dev_vlans[v] = "b"

\* the first read failed in check mode
ReadErrorInCheckModeReached ==
    Done /\ outcome = "ReadError" /\ check_mode /\ applied = <<>>

\* the read of the verification failed
VerifyReadErrorReached ==
    Done /\ outcome = "ReadError" /\ Writes # <<>>

\* the plan the first read and desired would give without a safety port
Unguarded == build_device_plan(current, normalize_device_config(desired),
                               FALSE, TRUE, TRUE, None)

\* the only difference between current and desired is admin_up=False on
\* the safety port
OnlySafetyDisable ==
    /\ PlanComputed
    /\ Len(Unguarded.changes) = 1
    /\ Unguarded.changes[1].key = PortKey(Get(safety_port_id))
    /\ DOMAIN Unguarded.changes[1].details.diffs = {"admin_up"}
    /\ Unguarded.changes[1].details.diffs.admin_up.to = Some(FALSE)

\* desired asks for the safety port to be down
DisablesSafetyPort ==
    /\ In(Get(safety_port_id), desired.ports)
    /\ desired.ports.val[Get(safety_port_id)].admin_up = Some(FALSE)

\* C18: when the only difference is admin_up=False on the safety port the
\* plan is empty and the call returns changed=false; and when desired
\* disables the safety port, the residual diff of a VerificationError holds
\* no admin_up diff for that port.
C18_SafetyPortNotAnError ==
    /\ OnlySafetyDisable =>
          /\ plan.changes = <<>>
          /\ pc = "done" /\ outcome = "returned"
          /\ ~ret.changed
    /\ (mode = "apply" /\ outcome = "VerificationError" /\ DisablesSafetyPort) =>
          \A i \in 1..Len(ret.remaining_diff.changes) :
              LET c == ret.remaining_diff.changes[i]
              IN c.key = PortKey(Get(safety_port_id)) =>
                    "admin_up" \notin DOMAIN c.details.diffs

\* the safety port is up, desired only asks for it to be down, and the call
\* returned
C18_Witness ==
    /\ OnlySafetyDisable /\ Done
    /\ dev_ports[Get(safety_port_id)].admin_up

\* a verification failed in a run whose desired disables the safety port,
\* and the safety port is still up
SafetyPortUpAtVerificationErrorReached ==
    /\ mode = "apply" /\ outcome = "VerificationError" /\ DisablesSafetyPort
    /\ dev_ports[Get(safety_port_id)].admin_up

-----------------------------------------------------------------------------
(* Claims about JTComSession                                               *)

\* the call of the session has ended
CallEnded == mode = "session" /\ run > 0 /\ pc = "idle"

IsPost(e) == e.op = "post"

IsLogin(e) == e.op = "login"

\* the POSTs of path and data sent by the running call
Posts == SelectSeq(requests, IsPost)

\* the response is JSON with this code
HasCode(r, code) == r.kind = "json" /\ Get(r.body).code = code

\* the logins sent after the first POST of the call
Relogins ==
    IF Posts = <<>> THEN <<>>
    ELSE SelectSeq(SubSeq(requests, FirstIndex(IsPost) + 1, Len(requests)), IsLogin)

\* C19: a post() call sends its POST at most twice and re-logs-in at most
\* once, whatever the responses; a second POST is sent only after the first
\* was answered auth-expired and the one re-login succeeded, and it is the
\* same request; and once the call has ended, a first answer of
\* auth-expired was followed by exactly one re-login and, that login
\* accepted, by exactly one re-send.
C19_BoundedRelogin ==
    mode = "session" =>
        /\ Len(Posts) <= 2
        /\ Len(Relogins) <= 1
        /\ Len(Posts) = 2 =>
              /\ HasCode(Posts[1].resp, CODE_AUTH_EXPIRED)
              /\ Len(Relogins) = 1
              /\ HasCode(Relogins[1].resp, CODE_OK)
              /\ Posts[2].path = Posts[1].path
              /\ Posts[2].form = Posts[1].form
        /\ Relogins # <<>> => HasCode(Posts[1].resp, CODE_AUTH_EXPIRED)
        /\ (CallEnded /\ Posts # <<>> /\ HasCode(Posts[1].resp, CODE_AUTH_EXPIRED)) =>
              /\ Len(Relogins) = 1
              /\ Len(Posts) = IF HasCode(Relogins[1].resp, CODE_OK) THEN 2 ELSE 1

\* a call that was answered auth-expired, logged in again, re-sent its POST
\* and returned
C19_Witness ==
    /\ CallEnded /\ outcome = "returned"
    /\ Len(Posts) = 2
    /\ Len(Relogins) = 1

\* the retried POST was answered auth-expired again and the call ended
RetryExpiredAgainReached ==
    /\ CallEnded
    /\ Len(Posts) = 2
    /\ HasCode(Posts[2].resp, CODE_AUTH_EXPIRED)

\* the last response the call received
LastResponse == requests[Len(requests)].resp

\* C20: post() returns only when its last response is a POST answered with
\* code 0, and returns that payload; a first answer with a non-zero code
\* other than auth-expired, and a retried answer with any non-zero code,
\* make it raise SwitchError with that code, the data field as message, the
\* path as endpoint and the payload.
C20_PostOutcome ==
    (CallEnded /\ call.op = "post") =>
        /\ outcome = "returned" =>
              /\ IsPost(requests[Len(requests)])
              /\ HasCode(LastResponse, CODE_OK)
              /\ ret = Get(LastResponse.body)
        /\ (/\ Posts # <<>>
            /\ Posts[Len(Posts)].resp.kind = "json"
            /\ \/ Len(Posts) = 2 /\ ~HasCode(Posts[2].resp, CODE_OK)
               \/ /\ ~HasCode(Posts[1].resp, CODE_OK)
                  /\ ~HasCode(Posts[1].resp, CODE_AUTH_EXPIRED)) =>
              /\ outcome = "SwitchError"
              /\ ret.code = Get(Posts[Len(Posts)].resp.body).code
              /\ ret.message = Get(Posts[Len(Posts)].resp.body).data
              /\ ret.endpoint = call.path
              /\ ret.payload = Get(Posts[Len(Posts)].resp.body)

\* a retried POST answered with a parameter error: SwitchError with that
\* code
C20_Witness ==
    /\ CallEnded /\ outcome = "SwitchError"
    /\ Len(Posts) = 2
    /\ ret.code = CODE_PARAM_ERR
    /\ ret.message = "invalid vid"

\* a first POST answered with a parameter error
FirstPostRejectedReached ==
    /\ CallEnded /\ outcome = "SwitchError"
    /\ Len(Posts) = 1
    /\ ret.code = CODE_PARAM_ERR

\* the last request of the running call is a login
LoginAnswered == mode = "session" /\ requests # <<>> /\ IsLogin(requests[Len(requests)])

\* C21: whenever the session has just been answered a login, by login()
\* itself, by ensure_session() or by the re-login of post(): a response with
\* code 0 leaves the session logged in and raises nothing; a response with
\* a non-zero code raises AuthError, ends the call and leaves the session
\* logged out, whatever it was before; a body that is not JSON raises
\* ParseError.
C21_LoginOutcomes ==
    LoginAnswered =>
        /\ HasCode(LastResponse, CODE_OK) =>
              /\ logged_in
              /\ outcome \in {"running", "returned"}
              /\ call.op = "login" => outcome = "returned"
        /\ (LastResponse.kind = "json" /\ ~HasCode(LastResponse, CODE_OK)) =>
              /\ ~logged_in
              /\ outcome = "AuthError"
              /\ pc = "idle"
        /\ LastResponse.kind = "garbage" =>
              /\ outcome = "ParseError"
              /\ pc = "idle"

\* login() called on a logged-in session and rejected with a non-zero code
C21_Witness ==
    /\ CallEnded /\ call.op = "login" /\ call.before
    /\ HasCode(LastResponse, CODE_PARAM_ERR)
    /\ outcome = "AuthError"
    /\ ~logged_in

\* login() on a logged-out session answered with code 0
LoginAcceptedReached ==
    /\ CallEnded /\ call.op = "login" /\ ~call.before
    /\ HasCode(LastResponse, CODE_OK)
    /\ logged_in

\* login() answered with a body that is not JSON
LoginParseErrorReached ==
    /\ CallEnded /\ call.op = "login"
    /\ LastResponse.kind = "garbage"
    /\ outcome = "ParseError"

\* C22: a logout() call that has ended has sent its one logout request,
\* raised nothing and left the session logged out, whatever the session
\* state before it and whatever the response: any body, no response, or a
\* non-2xx status.
C22_LogoutBestEffort ==
    (CallEnded /\ call.op = "logout") =>
        /\ outcome = "returned"
        /\ ~logged_in
        /\ Len(requests) = 1
        /\ requests[1].op = "logout"

\* logout() on a logged-in session whose request met a transport failure
C22_Witness ==
    /\ CallEnded /\ call.op = "logout" /\ call.before
    /\ LastResponse = NoResponse
    /\ outcome = "returned"
    /\ ~logged_in

\* logout() answered with a non-2xx status
LogoutBadStatusReached ==
    /\ CallEnded /\ call.op = "logout"
    /\ LastResponse = BadStatus

\* logout() on a session that was logged out already
LogoutWhenLoggedOutReached ==
    /\ CallEnded /\ call.op = "logout" /\ ~call.before
    /\ HasCode(LastResponse, CODE_OK)

\* an ensure_session() call has ended
EnsureSessionEnded == CallEnded /\ call.op = "ensure_session"

\* the call sent nothing, returned and left the session logged in
NoOpLoggedIn ==
    /\ requests = <<>>
    /\ outcome = "returned"
    /\ logged_in

\* C23: an ensure_session() call on a logged-in session sends no request,
\* returns and leaves the session logged in; on a logged-out session it
\* sends exactly one login and nothing else, and when that login is
\* answered with code 0 it returns with the session logged in; and an
\* ensure_session() call made right after one that returned is such a
\* no-op, so that the two calls sent what the first one sent and end in the
\* state the first one ended in.
C23_EnsureSessionIdempotent ==
    EnsureSessionEnded =>
        /\ call.before => NoOpLoggedIn
        /\ ~call.before =>
              /\ Len(requests) = 1
              /\ IsLogin(requests[1])
              /\ HasCode(LastResponse, CODE_OK) => (logged_in /\ outcome = "returned")
        /\ call.prev = <<"ensure_session", "returned">> => (call.before /\ NoOpLoggedIn)

\* two ensure_session() calls in a row, the first of which returned: the
\* second has ended
C23_Witness ==
    /\ EnsureSessionEnded
    /\ run = 2
    /\ call.prev = <<"ensure_session", "returned">>
    /\ NoOpLoggedIn

\* ensure_session() on a logged-out session whose login was accepted
EnsureSessionLoggedInReached ==
    /\ EnsureSessionEnded /\ ~call.before
    /\ Len(requests) = 1 /\ HasCode(LastResponse, CODE_OK)
    /\ logged_in

\* ensure_session() called again after a call whose login was rejected:
\* it sends a login of its own
EnsureSessionAfterFailureReached ==
    /\ EnsureSessionEnded
    /\ call.prev = <<"ensure_session", "AuthError">>
    /\ Len(requests) = 1

-----------------------------------------------------------------------------
(* Further claims about build_device_plan                                  *)

\* the desired ports that current does not know
UnknownPorts == {pid \in DOMAIN desired.ports.val : ~In(pid, current.ports)}

\* C24: the plan holds no change whose key is a desired port that current
\* does not know, whatever the fields and the state of the desired entry.
C24_UnknownPortSkipped ==
    Planned =>
        \A pid \in UnknownPorts :
            \A i \in ChangeIdx : ~IsPortChange(i, pid)

\* a plan was built for a desired port, asking for three fields, that is
\* unknown to a current holding another port
C24_Witness ==
    /\ Planned
    /\ current.ports.keys # <<>>
    /\ \E pid \in UnknownPorts :
          /\ desired.ports.val[pid].admin_up = Some(FALSE)
          /\ desired.ports.val[pid].speed_duplex = Some("1000M/Full")
          /\ desired.ports.val[pid].flow_control = Some(TRUE)
    /\ plan.changes = <<>>

\* the same for an unknown port marked absent
UnknownPortAbsentReached ==
    /\ Planned
    /\ \E pid \in UnknownPorts : desired.ports.val[pid].state = "absent"

PortFields == {"admin_up", "speed_duplex", "flow_control"}

\* the desired ports that current knows
KnownPorts == {pid \in DOMAIN desired.ports.val : In(pid, current.ports)}

\* the fields of a known desired port that are given and differ from
\* current, less admin_up when the entry sets it False on the safety port
ExpectedPortFields(pid) ==
    LET cfg_p == desired.ports.val[pid]
        cur_p == current.ports.val[pid]
    IN {f \in PortFields : cfg_p[f] # None /\ cfg_p[f] # cur_p[f]}
       \ (IF cfg_p.admin_up = Some(FALSE) /\ safety_port_id = Some(pid)
           THEN {"admin_up"} ELSE {})

\* the changes of the plan whose key is port pid
PortChangesOf(pid) == {i \in ChangeIdx : IsPortChange(i, pid)}

PortUnchangedReached ==
    /\ Planned
    /\ \E pid \in KnownPorts :
          /\ desired.ports.val[pid].admin_up # None
          /\ desired.ports.val[pid].speed_duplex # None
          /\ ExpectedPortFields(pid) = {}
          /\ PortChangesOf(pid) = {}

\* the safety port asked down and to another speed: the speed diff alone
SafetyFilteredUpdateReached ==
    /\ Planned
    /\ \E pid \in KnownPorts :
          /\ safety_port_id = Some(pid)
          /\ desired.ports.val[pid].admin_up = Some(FALSE)
          /\ current.ports.val[pid].admin_up = Some(TRUE)
          /\ \E i \in PortChangesOf(pid) :
                DOMAIN plan.changes[i].details.diffs = {"speed_duplex"}

\* the admin_up diff of the port_update of port pid, None when there is none
AdminUpDiff(pid) ==
    IF PortDiffHas(pid, "admin_up")
    THEN Some((CHOOSE i \in PortChangesOf(pid) : TRUE).details.diffs.admin_up)
    ELSE None

\* C26 (as claimed): for a desired port entry with state=absent whose port
\* current knows, other than the safety port: when the port is up the plan
\* has a port_update with an admin_up diff from True to False, and when it
\* is down already the plan has no admin_up diff for it.
C26_PortAbsentDisables ==
    Planned =>
        \A pid \in KnownPorts :
            (desired.ports.val[pid].state = "absent" /\ safety_port_id # Some(pid)) =>
                /\ current.ports.val[pid].admin_up = Some(TRUE) =>
                      AdminUpDiff(pid) = Some([from |-> Some(TRUE), to |-> Some(FALSE)])
                /\ current.ports.val[pid].admin_up = Some(FALSE) =>
                      AdminUpDiff(pid) = None

\* What the code does with state=absent: nothing.  The plan for an entry
\* marked absent is the plan for the same entry marked present.
PortStateIgnored ==
    Planned =>
        plan = build_device_plan(
                   current,
                   [desired EXCEPT !.ports.val =
                        [pid \in DOMAIN desired.ports.val |->
                             [desired.ports.val[pid] EXCEPT !.state = "present"]]],
                   allow_vlan_delete, allow_vlan_membership, allow_vlan_rename,
                   safety_port_id)

\* a port that is up, marked absent with every field None, and an empty plan
PortAbsentNotDisabledReached ==
    /\ Planned
    /\ safety_port_id = None
    /\ \E pid \in KnownPorts :
          /\ desired.ports.val[pid] = PortConfig(pid, None, None, None, "absent")
          /\ current.ports.val[pid].admin_up = Some(TRUE)
    /\ plan.changes = <<>>

\* the desired VLANs marked present
PresentVlans == {vid \in DOMAIN desired.vlans.val : desired.vlans.val[vid].state = "present"}

\* the changes of the plan whose key is VLAN vid
VlanChangesOf(vid) == {i \in ChangeIdx : IsVlanChange(i, vid)}

\* a present desired VLAN that current lacks has exactly one change, a
\* vlan_create with the desired name and membership lists
CreatedInFull(vid) ==
    LET cfg == desired.vlans.val[vid]
    IN /\ Cardinality(VlanChangesOf(vid)) = 1
       /\ \A i \in VlanChangesOf(vid) :
             /\ KindAt(i) = "vlan_create"
             /\ plan.changes[i].details =
                    [vlan_id |-> vid, name |-> cfg.name,
                     tagged_ports |-> cfg.tagged_ports,
                     untagged_ports |-> cfg.untagged_ports]

NameDiffers(vid) ==
    /\ desired.vlans.val[vid].name # None
    /\ desired.vlans.val[vid].name # current.vlans.val[vid].name

MembershipDiffers(vid) ==
    \/ Range(desired.vlans.val[vid].tagged_ports) # Range(current.vlans.val[vid].tagged_ports)
    \/ Range(desired.vlans.val[vid].untagged_ports) # Range(current.vlans.val[vid].untagged_ports)

\* the plan has a vlan_update of VLAN vid, and nothing else for it, exactly
\* when `differs`
UpdatedIff(vid, differs) ==
    /\ differs <=> HasChange("vlan_update", VlanKey(vid))
    /\ ~differs => VlanChangesOf(vid) = {}
    /\ \A i \in VlanChangesOf(vid) : KindAt(i) = "vlan_update"
    /\ Cardinality(VlanChangesOf(vid)) <= 1

\* C27 (as claimed): a desired VLAN marked present that current lacks gets a
\* vlan_create with the full desired name and membership; one that current
\* has gets a vlan_update if and only if its name (when given) or its
\* tagged or untagged port set differs from current, and no change when
\* nothing differs.
C27_VlanPresentRules ==
    Planned =>
        \A vid \in PresentVlans :
            IF ~In(vid, current.vlans) THEN CreatedInFull(vid)
            ELSE UpdatedIff(vid, NameDiffers(vid) \/ MembershipDiffers(vid))

\* C27 (corrected): the same, where a differing name counts only under
\* allow_vlan_rename and a differing port set only under
\* allow_vlan_membership.
C27_VlanPresentRulesUnderFlags ==
    Planned =>
        \A vid \in PresentVlans :
            IF ~In(vid, current.vlans) THEN CreatedInFull(vid)
            ELSE UpdatedIff(vid, \/ allow_vlan_rename /\ NameDiffers(vid)
                                 \/ allow_vlan_membership /\ MembershipDiffers(vid))

\* under the default flags: a present VLAN with no name given and other
\* ports than current has its vlan_update, with no name diff
C27_Witness ==
    /\ Planned
    /\ allow_vlan_rename /\ allow_vlan_membership
    /\ \E vid \in PresentVlans :
          /\ In(vid, current.vlans)
          /\ desired.vlans.val[vid].name = None
          /\ MembershipDiffers(vid)
          /\ \E i \in VlanChangesOf(vid) :
                /\ KindAt(i) = "vlan_update"
                /\ "name" \notin DOMAIN plan.changes[i].details.diffs

\* a present VLAN that current lacks, with a name and ports, created
VlanCreatedInFullReached ==
    /\ Planned
    /\ \E vid \in PresentVlans :
          /\ ~In(vid, current.vlans)
          /\ desired.vlans.val[vid].name # None
          /\ desired.vlans.val[vid].tagged_ports # <<>>
          /\ desired.vlans.val[vid].untagged_ports # <<>>
          /\ CreatedInFull(vid)

\* a present VLAN identical to current, with ports: no change
VlanIdenticalReached ==
    /\ Planned
    /\ \E vid \in PresentVlans :
          /\ In(vid, current.vlans)
          /\ desired.vlans.val[vid].name = current.vlans.val[vid].name
          /\ desired.vlans.val[vid].untagged_ports # <<>>
          /\ ~MembershipDiffers(vid)
    /\ plan.changes = <<>>

\* with allow_vlan_rename off, a differing name gets no vlan_update
RenameSuppressedReached ==
    /\ Planned
    /\ ~allow_vlan_rename
    /\ \E vid \in PresentVlans :
          /\ In(vid, current.vlans)
          /\ NameDiffers(vid)
          /\ VlanChangesOf(vid) = {}

ChangeKinds == {"vlan_create", "vlan_update", "port_update", "vlan_delete"}

\* the number of changes of this kind in the plan
CountKind(kind) == Cardinality({i \in ChangeIdx : KindAt(i) = kind})

\* C28: the summary of every plan has exactly the four keys vlan_create,
\* vlan_update, port_update and vlan_delete, each mapped to the number of
\* changes of that kind in the plan, zero included; the rendered plan
\* carries the same summary, and its total_changes is the sum of the four
\* counts.
C28_SummaryConsistency ==
    Planned =>
        /\ DOMAIN plan.summary = ChangeKinds
        /\ \A kind \in ChangeKinds : plan.summary[kind] = CountKind(kind)
        /\ render_diff(plan).summary = plan.summary
        /\ render_diff(plan).total_changes =
               plan.summary.vlan_create + plan.summary.vlan_update
               + plan.summary.port_update + plan.summary.vlan_delete

\* a plan with changes of all four kinds, two of them of one kind
C28_Witness ==
    /\ Planned
    /\ \A kind \in ChangeKinds : plan.summary[kind] >= 1
    /\ plan.summary.port_update = 2
    /\ render_diff(plan).total_changes >= 5

\* an empty plan for a non-empty desired: four zero counts
ZeroSummaryReached ==
    /\ Planned
    /\ desired.vlans.keys # <<>>
    /\ plan.changes = <<>>
    /\ \A kind \in ChangeKinds : plan.summary[kind] = 0

-----------------------------------------------------------------------------
(* Claims about normalize_device_config                                    *)

\* C29: for every config x, normalizing normalize_device_config(x) once
\* more gives normalize_device_config(x) again: the same VLANs and ports,
\* in the same key order, with the same fields.
C29_NormalizeIdempotent ==
    (mode = "normalize" /\ pc = "twice") => current = ret

\* a config whose normalization changed it (an aliased token, ports out
\* of key order) was normalized twice
C29_Witness ==
    /\ mode = "normalize" /\ pc = "twice"
    /\ Len(desired.ports.keys) = 2
    /\ desired.ports.keys # ret.ports.keys
    /\ \E pid \in DOMAIN desired.ports.val :
          /\ desired.ports.val[pid].speed_duplex = Some("1gfull")
          /\ ret.ports.val[pid].speed_duplex = Some("1000M/Full")
    /\ current = ret

\* a VLAN whose lists had duplicates and an overlap was normalized twice
OverlapNormalizedTwiceReached ==
    /\ mode = "normalize" /\ pc = "twice"
    /\ \E vid \in DOMAIN desired.vlans.val :
          /\ desired.vlans.val[vid].tagged_ports = <<1, 0, 1>>
          /\ desired.vlans.val[vid].untagged_ports = <<1, 1>>
          /\ ret.vlans.val[vid].tagged_ports = <<0>>

\* an unknown token is left as it is by both passes
UnknownTokenKeptReached ==
    /\ mode = "normalize" /\ pc = "twice"
    /\ \E pid \in DOMAIN desired.ports.val :
          /\ desired.ports.val[pid].speed_duplex = Some("bogus")
          /\ current.ports.val[pid].speed_duplex = Some("bogus")

StrictlyAscending(s) == \A i \in 1..(Len(s) - 1) : s[i] < s[i + 1]

\* C30: in the normalized config every VLAN of the input is there, and for
\* each of them tagged_ports and untagged_ports are strictly ascending and
\* disjoint, untagged_ports holds the ports of the input's untagged_ports
\* and tagged_ports those of the input's tagged_ports that are not in its
\* untagged_ports.
C30_NormalizedMembership ==
    (mode = "normalize" /\ pc \in {"once", "twice"}) =>
        /\ DOMAIN ret.vlans.val = DOMAIN desired.vlans.val
        /\ \A vid \in DOMAIN ret.vlans.val :
              LET n == ret.vlans.val[vid]
                  x == desired.vlans.val[vid]
              IN /\ StrictlyAscending(n.tagged_ports)
                 /\ StrictlyAscending(n.untagged_ports)
                 /\ Range(n.tagged_ports) \cap Range(n.untagged_ports) = {}
                 /\ Range(n.untagged_ports) = Range(x.untagged_ports)
                 /\ Range(n.tagged_ports) =
                        Range(x.tagged_ports) \ Range(x.untagged_ports)

\* a VLAN given unsorted lists with a duplicate and one port in both
C30_Witness ==
    /\ mode = "normalize" /\ pc = "once"
    /\ \E vid \in DOMAIN desired.vlans.val :
          /\ desired.vlans.val[vid].tagged_ports = <<1, 0, 1>>
          /\ desired.vlans.val[vid].untagged_ports = <<1, 0>>
          /\ ret.vlans.val[vid].tagged_ports = <<>>
          /\ ret.vlans.val[vid].untagged_ports = <<0, 1>>

\* several VLANs, one with an overlap, normalized
ManyVlansNormalizedReached ==
    /\ mode = "normalize" /\ pc = "once"
    /\ Len(ret.vlans.keys) = MaxVid
    /\ \E vid \in DOMAIN ret.vlans.val : ret.vlans.val[vid].tagged_ports = <<1>>

\* the canonical form the alias table gives for the tokens of the model:
\* canonical tokens and the unknown one map to themselves
CanonicalOf(t) ==
    CASE t \in {"Auto", "AUTO"} -> "Auto"
      [] t \in {"1000M/Full", "1G/Full", "1g/full", "1gfull"} -> "1000M/Full"
      [] t \in {"100MHalf", "100mhalf"} -> "100M/Half"
      [] t = "bogus" -> "bogus"

\* C31: in the normalized config every port of the input is there with
\* its port_id, admin_up, flow_control and state as given; a speed_duplex
\* of None stays None, a canonical token and an unknown token stay as they
\* are, and a token that is an alias in any letter case becomes its
\* canonical token.
C31_SpeedDuplexCanonical ==
    (mode = "normalize" /\ pc \in {"once", "twice"}) =>
        /\ DOMAIN ret.ports.val = DOMAIN desired.ports.val
        /\ \A pid \in DOMAIN ret.ports.val :
              LET n == ret.ports.val[pid]
                  x == desired.ports.val[pid]
              IN /\ n.port_id = x.port_id
                 /\ n.admin_up = x.admin_up
                 /\ n.flow_control = x.flow_control
                 /\ n.state = x.state
                 /\ n.speed_duplex =
                        IF x.speed_duplex = None THEN None
                        ELSE Some(CanonicalOf(Get(x.speed_duplex)))

\* ports given 'AUTO' and '1g/full', one of them marked absent with
\* flow_control set, normalized
C31_Witness ==
    /\ mode = "normalize" /\ pc = "once"
    /\ \E p1, p2 \in DOMAIN desired.ports.val :
          /\ desired.ports.val[p1].speed_duplex = Some("AUTO")
          /\ ret.ports.val[p1].speed_duplex = Some("Auto")
          /\ desired.ports.val[p2].speed_duplex = Some("1g/full")
          /\ desired.ports.val[p2].state = "absent"
          /\ ret.ports.val[p2].speed_duplex = Some("1000M/Full")
          /\ ret.ports.val[p2].flow_control = Some(FALSE)

\* '100mhalf' in mixed case, an unknown token and None
MixedCaseAliasReached ==
    /\ mode = "normalize" /\ pc = "once"
    /\ \E p1, p2 \in DOMAIN desired.ports.val :
          /\ desired.ports.val[p1].speed_duplex = Some("100MHalf")
          /\ ret.ports.val[p1].speed_duplex = Some("100M/Half")
          /\ desired.ports.val[p2].speed_duplex = None
          /\ ret.ports.val[p2].speed_duplex = None

\* C39: in every plan a vlan_create is of a VLAN that current lacks, a
\* vlan_update and a vlan_delete are of a VLAN that current has, a
\* port_update is of a port that current has, the key of a change names
\* the kind of thing its kind is about, and no two changes have the same
\* key.
C39_PlanConsistentWithCurrent ==
    Planned =>
        /\ \A i \in ChangeIdx :
              /\ KindAt(i) \in ChangeKinds
              /\ KindAt(i) = "vlan_create" =>
                    (IsVlanChange(i, IdAt(i)) /\ ~In(IdAt(i), current.vlans))
              /\ KindAt(i) \in {"vlan_update", "vlan_delete"} =>
                    (IsVlanChange(i, IdAt(i)) /\ In(IdAt(i), current.vlans))
              /\ KindAt(i) = "port_update" =>
                    (IsPortChange(i, IdAt(i)) /\ In(IdAt(i), current.ports))
        /\ \A i, j \in ChangeIdx :
              plan.changes[i].key = plan.changes[j].key => i = j

\* a plan that creates, updates and deletes VLANs and updates a port
C39_Witness ==
    /\ Planned
    /\ \A kind \in ChangeKinds : CountKind(kind) >= 1
    /\ Len(current.vlans.keys) >= 2
    /\ Len(desired.vlans.keys) >= 2

-----------------------------------------------------------------------------
(* Further claims about JTComSession                                       *)

\* the login just answered raised: the call ended with the exception
LoginRaised ==
    /\ LoginAnswered
    /\ pc = "idle"
    /\ outcome \in {"AuthError", "ParseError", "RequestError", "ResponseError"}

\* C37 (as claimed): after a login that raised AuthError, ParseError, a
\* transport error or an HTTP status error, be it login() itself, the
\* login of ensure_session() or the re-login of post(), the session is not
\* marked logged in.
C37_FailedLoginLoggedOut == LoginRaised => ~logged_in

\* What the code keeps: a login that raised AuthError leaves the session
\* logged out, and a login that raised anything else leaves the flag as it
\* was when the login was sent (true for a re-login of post()).
FailedLoginFlag ==
    LoginRaised =>
        logged_in = IF outcome = "AuthError" THEN FALSE
                    ELSE IF Posts # <<>> THEN TRUE
                    ELSE call.before

\* post() was answered auth-expired, its re-login got a body that is not
\* JSON, and the session is still marked logged in
ReloginParseErrorLoggedInReached ==
    /\ LoginRaised
    /\ call.op = "post" /\ Len(Posts) = 1
    /\ outcome = "ParseError"
    /\ logged_in

\* login() on a logged-in session met a transport failure and the session
\* is still marked logged in
LoginTransportErrorLoggedInReached ==
    /\ LoginRaised
    /\ call.op = "login" /\ call.before
    /\ outcome = "RequestError"
    /\ logged_in

-----------------------------------------------------------------------------
(* Further claims about apply_device_config                                *)

\* the first read of the run has been taken: `current` is the switch as it
\* was before the run
RunUnderWay == mode = "apply" /\ pc # "start"

\* the desired VLANs with no name given that the switch had before the run
UnnamedKnownVlans ==
    {vid \in DOMAIN desired.vlans.val :
        DesiredN.vlans.val[vid].name = None /\ In(vid, current.vlans)}

\* C33 (as claimed): at every step of a run, and after it, a VLAN that the
\* switch had before the run and whose desired name is None has on the
\* switch the name it had before the run.
C33_NameNoneKeepsName ==
    RunUnderWay =>
        \A vid \in UnnamedKnownVlans :
            /\ vid \in DOMAIN dev_vlans
            /\ Some(dev_vlans[vid]) = current.vlans.val[vid].name

\* What the code does: the write of a vlan_update is the vlan_create
\* request, with vlanname empty when the desired name is None.
UnnamedUpdateSendsEmptyName ==
    RunUnderWay =>
        \A i \in 1..Len(requests) :
            (/\ requests[i].op = "vlan_create"
             /\ requests[i].vlanid \in UnnamedKnownVlans) =>
                requests[i].vlanname = ""

\* a run on a VLAN named 'a', marked present, with no name given and one
\* more untagged port, returned successfully and left the VLAN unnamed
UnnamedUpdateRenamedReached ==
    /\ Done /\ outcome = "returned" /\ ~ignored
    /\ \E vid \in UnnamedKnownVlans :
          /\ desired.vlans.val[vid].state = "present"
          /\ desired.vlans.val[vid].untagged_ports = <<0>>
          /\ current.vlans.val[vid].name = Some("a")
          /\ dev_vlans[vid] = ""

PortIndices == 0..(MaxPort - 1)

\* the port was a member, tagged or untagged, of some VLAN at the first read
MemberBefore(i) ==
    \E vid \in DOMAIN current.vlans.val :
        i \in Range(current.vlans.val[vid].tagged_ports)
             \cup Range(current.vlans.val[vid].untagged_ports)

\* the port is a member of some VLAN the switch has now
MemberNow(i) ==
    LET now == ReadVlans(dev_vlans, dev_pvlan)
    IN \E vid \in DOMAIN now :
          PortName(i) \in Range(now[vid].tagged_ports) \cup Range(now[vid].untagged_ports)

\* C32: while a run applies its plan to a switch that executes every
\* write, and after it, every port that was a member of some VLAN before
\* the run is a member of some VLAN.
C32_NoTransientOrphan ==
    (RunUnderWay /\ ~ignored) =>
        \A i \in PortIndices : MemberBefore(i) => MemberNow(i)

\* in the middle of a run, with changes still to apply, the first port has
\* been moved to a VLAN it was not in before the run
C32_Witness ==
    /\ RunUnderWay /\ ~ignored
    /\ pc = "apply" /\ idx > 1
    /\ MemberBefore(0)
    /\ dev_pvlan[0].access_vlan \in DOMAIN dev_vlans
    /\ \A vid \in DOMAIN current.vlans.val :
          0 \in Range(current.vlans.val[vid].untagged_ports)
              => dev_pvlan[0].access_vlan # vid

\* a port made a trunk port in the middle of a run
TrunkSetMidRunReached ==
    /\ RunUnderWay /\ ~ignored
    /\ pc = "apply"
    /\ \E i \in PortIndices : dev_pvlan[i].vlan_type = "trunk"

\* the CGI flag of a boolean
Flag(b) == IF b THEN "1" ELSE "0"

\* the update_port requests sent so far in the run
PortWrites == SelectSeq(requests, LAMBDA e : e.op = "update_port")

\* the request carries the desired value of every given field, and the
\* value of the first read for every omitted field that the read knows
CarriesDesiredOrCurrent(w) ==
    LET des_p == DesiredN.ports.val[w.portid + 1]
        cur_p == CurrentSetting(w.portid + 1)
    IN /\ w.state = Flag(IF des_p.admin_up # None THEN Get(des_p.admin_up)
                         ELSE cur_p.admin_up)
       /\ w.speed_duplex =
              SPEED_TOKEN_TO_CODE[Get(IF des_p.speed_duplex # None THEN des_p.speed_duplex
                                      ELSE cur_p.speed_duplex)]
       /\ des_p.flow_control # None => w.flow = Flag(Get(des_p.flow_control))
       /\ (des_p.flow_control = None /\ cur_p.flow_control # None) =>
              w.flow = Flag(Get(cur_p.flow_control))

\* the fields of the desired entry of port pid that are None are on the
\* switch as the first read found them
OmittedFieldsKept(pid) ==
    LET des_p == DesiredN.ports.val[pid]
        cur_p == CurrentSetting(pid)
    IN /\ des_p.admin_up = None => dev_ports[pid].admin_up = cur_p.admin_up
       /\ des_p.speed_duplex = None => dev_ports[pid].speed_duplex = cur_p.speed_duplex
       /\ des_p.flow_control = None => dev_ports[pid].flow_control = cur_p.flow_control

\* C34 (as claimed): every update_port request carries the desired value
\* of each given field and the current value of each omitted one, and on a
\* switch that executes every write each omitted field of a desired port
\* is, during and after the run, as the first read found it, also when
\* that read found no flow control value.
C34_PortUpdateFrame ==
    (RunUnderWay /\ ~ignored /\ current_ports # <<>>) =>
        /\ \A i \in 1..Len(PortWrites) : CarriesDesiredOrCurrent(PortWrites[i])
        /\ \A pid \in DOMAIN desired.ports.val :
              In(pid, current.ports) => OmittedFieldsKept(pid)

\* What the code keeps: the same for the ports whose flow control the
\* first read knew.
PortUpdateFrameKnownFlow ==
    (RunUnderWay /\ ~ignored /\ current_ports # <<>>) =>
        /\ \A i \in 1..Len(PortWrites) : CarriesDesiredOrCurrent(PortWrites[i])
        /\ \A pid \in DOMAIN desired.ports.val :
              (In(pid, current.ports) /\ CurrentSetting(pid).flow_control # None)
                  => OmittedFieldsKept(pid)

\* a port whose flow control read as neither On nor Off was asked down
\* with flow_control omitted: the request carried flow=0, the switch now
\* reads Off and the run returned
UnknownFlowWrittenOffReached ==
    /\ Done /\ outcome = "returned" /\ ~ignored
    /\ \E pid \in DOMAIN desired.ports.val :
          /\ In(pid, current.ports)
          /\ desired.ports.val[pid].flow_control = None
          /\ desired.ports.val[pid].admin_up = Some(FALSE)
          /\ CurrentSetting(pid).flow_control = None
          /\ dev_ports[pid].flow_control = Some(FALSE)
          /\ Len(PortWrites) = 1 /\ PortWrites[1].flow = "0"

\* a port with flow control On had its speed changed with the other two
\* fields omitted: they are kept
KnownFlowKeptReached ==
    /\ Done /\ outcome = "returned" /\ ~ignored
    /\ \E pid \in DOMAIN desired.ports.val :
          /\ desired.ports.val[pid] = PortConfig(pid, None, Some("1000M/Full"), None, "present")
          /\ CurrentSetting(pid).flow_control = Some(TRUE)
          /\ dev_ports[pid].flow_control = Some(TRUE)
          /\ dev_ports[pid].speed_duplex = Some("1000M/Full")

\* vlan_delete is the running or the last call of the session
VlanDeleteCalled == mode = "session" /\ run > 0 /\ call.op = "vlan_delete"

\* C35: vlan_delete never sends a request that names VLAN 1; called with
\* a list that is empty or holds only VLAN 1 it sends no request and ends
\* with ValueError.
C35_VlanDeleteGuard ==
    VlanDeleteCalled =>
        /\ \A i \in 1..Len(requests) : 1 \notin Range(requests[i].form.del)
        /\ Range(call.data) \subseteq {1} =>
              /\ requests = <<>>
              /\ pc = "idle" => outcome = "ValueError"

\* vlan_delete was called with [1, 1]: ValueError, nothing sent
C35_Witness ==
    /\ VlanDeleteCalled /\ pc = "idle"
    /\ call.data = <<1, 1>>
    /\ outcome = "ValueError"
    /\ requests = <<>>

\* vlan_delete was called with [3, 1, 2]: one request, for 2 and 3
VlanOneSkippedReached ==
    /\ VlanDeleteCalled /\ pc = "idle"
    /\ call.data = <<3, 1, 2>>
    /\ Len(requests) = 1
    /\ requests[1].form.del = <<2, 3>>
    /\ outcome = "returned"

\* the write operations the orchestrator uses
WriteOps == {"vlan_create", "vlan_set_port", "apply_port_changes", "vlan_delete"}

IsWriteRequest(e) == e.op \in {"post", "post_form"}

\* the first write request of the call was answered auth-expired and every
\* request the call sent after it, a login or a POST, was answered code 0
ExpiredThenAccepted ==
    /\ \E i \in 1..Len(requests) : IsWriteRequest(requests[i])
    /\ LET k == FirstIndex(IsWriteRequest)
       IN /\ HasCode(requests[k].resp, CODE_AUTH_EXPIRED)
          /\ \A i \in (k + 1)..Len(requests) : HasCode(requests[i].resp, CODE_OK)

\* C36 (as claimed): a write operation, vlan_delete included, whose first
\* request is answered auth-expired, and whose every later request is
\* answered with success, returns instead of raising.
C36_UniformAuthExpiry ==
    (CallEnded /\ call.op \in WriteOps /\ ExpiredThenAccepted) => outcome = "returned"

\* What the code does: the three operations that post through the session
\* return after a re-login and a retry; vlan_delete sends one request and
\* raises JTComSwitchError with the auth-expired code.
AuthExpiryByOperation ==
    (CallEnded /\ call.op \in WriteOps /\ ExpiredThenAccepted) =>
        IF call.op = "vlan_delete"
        THEN /\ outcome = "SwitchError"
             /\ ret.code = CODE_AUTH_EXPIRED
             /\ Len(requests) = 1
        ELSE /\ outcome = "returned"
             /\ Len(Posts) = 2
             /\ Len(Relogins) = 1

\* vlan_delete([2]) on a logged-in session was answered auth-expired and
\* raised without a second request
VlanDeleteExpiredRaisedReached ==
    /\ CallEnded /\ call.op = "vlan_delete" /\ call.before
    /\ call.data = <<2>>
    /\ Len(requests) = 1
    /\ HasCode(requests[1].resp, CODE_AUTH_EXPIRED)
    /\ outcome = "SwitchError"

\* vlan_create, answered auth-expired, logged in again and returned
VlanCreateRetriedReached ==
    /\ CallEnded /\ call.op = "vlan_create"
    /\ ExpiredThenAccepted
    /\ outcome = "returned"

\* a request has just been sent that is neither a login nor a logout
SendsRequest ==
    /\ mode = "session"
    /\ Len(requests') = Len(requests) + 1
    /\ requests'[Len(requests')].op \notin {"login", "logout"}

\* C38 (as claimed): every request other than a login or a logout is sent
\* while the session is logged in, whatever method or write operation
\* sends it.
C38_RequestsWhileLoggedIn == [][SendsRequest => logged_in]_vars

\* What the code keeps: the same for every request but the POST of
\* vlan_delete.
SessionRequestsWhileLoggedIn ==
    [][(SendsRequest /\ call.op # "vlan_delete") => logged_in]_vars

\* vlan_delete([2]) was called on a logged-out session: its POST was sent
\* and the session is still logged out
VlanDeleteLoggedOutReached ==
    /\ CallEnded /\ call.op = "vlan_delete" /\ ~call.before
    /\ call.data = <<2>>
    /\ Len(requests) = 1 /\ requests[1].op = "post_form"
    /\ ~logged_in

\* get() was called on a logged-out session: a login went first
GetLoggedInFirstReached ==
    /\ CallEnded /\ call.op = "get" /\ ~call.before
    /\ Len(requests) = 2
    /\ IsLogin(requests[1]) /\ requests[2].op = "get"
    /\ outcome = "returned"

====
